---- MODULE Spec2Model ----
(***************************************************************************)
(* BactScout: QC evaluation engine (bactscout/thread.py), batch dispatcher *)
(* (bactscout/main.py) and summary merger (bactscout/summary.py).          *)
(*                                                                         *)
(* Five specifications share the variables below:                          *)
(*   SpecVerdict  final_status_pass applied to an arbitrary sample record  *)
(*   SpecEval     the evaluators of run_one_sample, one step per call      *)
(*   SpecBatch    main(): submit, worker pool, as_completed loop, merge    *)
(*   SpecMerge    summary_dir called repeatedly on one directory           *)
(*   SpecDiscover locate_read_file_pairs on a directory of files           *)
(***************************************************************************)
EXTENDS Integers, Sequences, FiniteSets, TLC

VARIABLES
    pc,              \* position inside run_one_sample / final_status_pass
    final_results,   \* the per-sample record (dict keyed by field name)
    locals,          \* run_one_sample's config, fastp_stats, species_abundance, species
    main_pc,             \* position inside main()
    all_ok,              \* result of preflight_check
    sample_pairs,        \* the pairs found by locate_read_file_pairs
    max_threads,         \* size of the worker pool
    future,              \* per pair: its future's state and outcome, yielded yet, times submitted
    successful_samples,
    failed_samples,
    progress,            \* units the progress bar was advanced by
    sample_rows,         \* per pair: data rows in <output_dir>/<sample>/<sample>_summary.csv
    final_summary,       \* <output_dir>/final_summary.csv
    summary_dir_calls,   \* times main() has called summary_dir
    files,               \* summary_dir: the files at and below data_dir, and output_file
    output_file,         \* summary_dir: where the merged file is written
    merge_log,           \* summary_dir: per call, the files read and the content written
    discovery            \* locate_read_file_pairs: position, directory, listing, read_pairs, result

sample_vars == <<pc, final_results, locals>>

batch_vars == <<main_pc, all_ok, sample_pairs, max_threads, future, successful_samples,
                failed_samples, progress, sample_rows, final_summary, summary_dir_calls>>

merge_vars == <<files, output_file, merge_log>>

vars == <<sample_vars, batch_vars, merge_vars, discovery>>

PASSED == "PASSED"
WARNING == "WARNING"
FAILED == "FAILED"
None == "None"

Statuses == {PASSED, WARNING, FAILED}

\* dict.get(key, default)
Get(d, k, default) == IF k \in DOMAIN d THEN d[k] ELSE default

\* d1.update(d2) / {**d1, **d2}
Update(d1, d2) ==
    [k \in (DOMAIN d1) \cup (DOMAIN d2) |-> IF k \in DOMAIN d2 THEN d2[k] ELSE d1[k]]

(***************************************************************************)
(* Numbers.  Rates, percentages, coverages and thresholds are floats in    *)
(* the source; here they are exact thousandths (0.60 is 600, 30x is        *)
(* 30000).  Read counts, base counts and read lengths are plain integers.  *)
(* Inputs are drawn so that every product and quotient below is exact.     *)
(***************************************************************************)

Fx(n) == n * 1000

FxMul(a, b) == (a * b) \div 1000

\* x / 100
Div100(a) == a \div 100

\* round(x, 2)
Round2(x) ==
    LET q == x \div 10
        r == x % 10
    IN IF r < 5 THEN q * 10
       ELSE IF r > 5 THEN (q + 1) * 10
       ELSE IF q % 2 = 0 THEN q * 10 ELSE (q + 1) * 10

(***************************************************************************)
(* blank_sample_results (thread.py 56-129)                                 *)
(***************************************************************************)

blank_sample_results(sample_id) ==
    [sample_id |-> sample_id,
     a_final_status |-> FAILED,
     read_total_reads |-> 0,
     read_total_bases |-> 0,
     read_q20_bases |-> 0,
     read_q30_bases |-> 0,
     read_q20_rate |-> 0,
     read_q30_rate |-> 0,
     read_q30_status |-> FAILED,
     read_q30_message |-> "No reads processed. Cannot determine quality metrics.",
     read1_mean_length |-> 0,
     read2_mean_length |-> 0,
     read_length_status |-> FAILED,
     read_length_message |-> "No reads processed. Cannot determine read lengths.",
     gc_content |-> 0,
     species |-> <<>>,
     species_abundance |-> <<>>,
     species_coverage |-> <<>>,
     coverage_estimate |-> 0,
     genome_size_expected |-> 0,
     coverage_status |-> FAILED,
     coverage_message |-> "No reads processed. Cannot estimate genome size or coverage.",
     gc_content_lower |-> 0,
     gc_content_upper |-> 0,
     gc_content_status |-> FAILED,
     gc_content_message |-> "No reads processed. Cannot determine expected GC content range.",
     species_status |-> FAILED,
     species_message |-> "No reads processed. Cannot determine species.",
     mlst_st |-> None,
     mlst_status |-> WARNING,
     mlst_message |-> <<"Cannot determine MLST.">>,
     contamination_status |-> FAILED,
     contamination_message |-> "No reads processed. Cannot determine contamination.",
     coverage_alt_estimate |-> 0,
     coverage_alt_message |-> "No reads processed. Cannot estimate alternative coverage.",
     coverage_alt_status |-> FAILED,
     genome_file_path |-> "",
     genome_file |-> "",
     duplication_rate |-> 0,
     duplication_status |-> FAILED,
     duplication_message |-> "No reads processed. Cannot determine duplication rate.",
     n_content_rate |-> 0,
     n_content_status |-> FAILED,
     n_content_message |-> "No reads processed. Cannot determine N-content.",
     adapter_detection_status |-> FAILED,
     adapter_detection_message |-> "No reads processed. Cannot verify adapter detection."]

(***************************************************************************)
(* handle_fastp_results (thread.py 411-515)                                *)
(***************************************************************************)

Q30FailDefault == 600
Q30WarnDefault == 700
ReadLengthFailDefault == 75
ReadLengthWarnDefault == 100

\* thresholds given as whole percentages (> 1) are divided by 100 (thread.py 450-453)
percent_to_fraction(t) == IF t > Fx(1) THEN Div100(t) ELSE t

q30_fail_threshold(config) ==
    percent_to_fraction(Get(config, "q30_fail_threshold", Q30FailDefault))

q30_warn_threshold(config) ==
    percent_to_fraction(Get(config, "q30_warn_threshold", Q30WarnDefault))

read_length_fail_threshold(config) ==
    Get(config, "read_length_fail_threshold", ReadLengthFailDefault)

read_length_warn_threshold(config) ==
    Get(config, "read_length_warn_threshold", ReadLengthWarnDefault)

\* a status together with its message
Eval(status, message) == [status |-> status, message |-> message]

q30_eval_no_reads_check(total_reads, q30_rate, fail, warn) ==
    IF q30_rate >= fail THEN Eval(PASSED, "Q30 rate meets threshold.")
    ELSE IF q30_rate >= warn
         THEN Eval(WARNING, "Q30 rate falls between warning and fail thresholds.")
         ELSE Eval(FAILED, "Q30 rate below warning threshold.")

\* thread.py 463-482
q30_eval(total_reads, q30_rate, fail, warn) ==
    IF total_reads = 0
    THEN Eval(FAILED, "No reads processed. Cannot determine quality metrics.")
    ELSE IF q30_rate >= fail THEN Eval(PASSED, "Q30 rate meets threshold.")
    ELSE IF q30_rate >= warn
         THEN Eval(WARNING, "Q30 rate falls between warning and fail thresholds.")
         ELSE Eval(FAILED, "Q30 rate below warning threshold.")

\* thread.py 488-513
read_length_eval(total_reads, read1_len, read2_len, fail, warn) ==
    IF total_reads = 0
    THEN Eval(FAILED, "No reads processed. Cannot determine read lengths.")
    ELSE IF read1_len >= fail /\ read2_len >= fail
         THEN Eval(PASSED, "Read1 and Read2 mean length meet threshold.")
    ELSE IF read1_len >= warn /\ read2_len >= warn
         THEN Eval(WARNING, "Read mean lengths fall between warning and fail thresholds.")
         ELSE Eval(FAILED, "Read mean lengths below warning threshold.")

handle_fastp_results(fastp_results, config) ==
    LET total_reads == Get(fastp_results, "read_total_reads", 0)
        q30 == q30_eval(total_reads, Get(fastp_results, "read_q30_rate", 0),
                        q30_fail_threshold(config), q30_warn_threshold(config))
        len == read_length_eval(total_reads,
                                Get(fastp_results, "read1_mean_length", 0),
                                Get(fastp_results, "read2_mean_length", 0),
                                read_length_fail_threshold(config),
                                read_length_warn_threshold(config))
    IN Update(fastp_results,
              [read_q30_status |-> q30.status, read_q30_message |-> q30.message,
               read_length_status |-> len.status, read_length_message |-> len.message])

(***************************************************************************)
(* handle_duplication_results (thread.py 518-580)                          *)
(***************************************************************************)

DuplicationWarnDefault == 200
DuplicationFailDefault == 300

\* thread.py 554-578
duplication_eval(total_reads, duplication_rate, warn, fail) ==
    IF total_reads = 0
    THEN Eval(FAILED, "No reads processed. Cannot determine duplication rate.")
    ELSE IF duplication_rate <= warn
         THEN Eval(PASSED, "Duplication rate is below warning threshold.")
    ELSE IF duplication_rate <= fail
         THEN Eval(WARNING, "Duplication rate falls between warning and fail thresholds.")
         ELSE Eval(FAILED, "Duplication rate exceeds fail threshold.")

handle_duplication_results(fastp_results, config) ==
    LET e == duplication_eval(Get(fastp_results, "read_total_reads", 0),
                              Get(fastp_results, "duplication_rate", 0),
                              Get(config, "duplication_warn_threshold", DuplicationWarnDefault),
                              Get(config, "duplication_fail_threshold", DuplicationFailDefault))
    IN Update(fastp_results,
              [duplication_status |-> e.status, duplication_message |-> e.message])

(***************************************************************************)
(* handle_n_content_results (thread.py 583-635)                            *)
(***************************************************************************)

NContentThresholdDefault == 1

\* thread.py 618-633; the rate is a percentage, the threshold a fraction
n_content_eval(total_reads, n_content_rate, n_content_threshold) ==
    IF total_reads = 0
    THEN Eval(FAILED, "No reads processed. Cannot determine N-content.")
    ELSE IF n_content_rate <= n_content_threshold * 100
         THEN Eval(PASSED, "N-content is below threshold.")
         ELSE Eval(WARNING, "N-content exceeds threshold.")

handle_n_content_results(fastp_results, config) ==
    LET e == n_content_eval(Get(fastp_results, "read_total_reads", 0),
                            Get(fastp_results, "n_content_rate", 0),
                            Get(config, "n_content_threshold", NContentThresholdDefault))
    IN Update(fastp_results,
              [n_content_status |-> e.status, n_content_message |-> e.message])

(***************************************************************************)
(* handle_adapter_detection (thread.py 638-684)                            *)
(* read1_before_filtering is kept as the length of its                     *)
(* overrepresented_sequences list.                                         *)
(***************************************************************************)

AdapterOverrepDefault == 5

\* thread.py 661-682
adapter_eval(total_reads, overrep_count, adapter_overrep_threshold) ==
    IF total_reads = 0
    THEN Eval(FAILED, "No reads processed. Cannot check for adapter contamination.")
    ELSE IF overrep_count = 0
         THEN Eval(PASSED, "No overrepresented sequences detected.")
    ELSE IF overrep_count <= adapter_overrep_threshold
         THEN Eval(WARNING, "overrepresented sequence(s) detected.")
         ELSE Eval(FAILED, "overrepresented sequences detected (threshold).")

handle_adapter_detection(fastp_results, config) ==
    LET e == adapter_eval(Get(fastp_results, "read_total_reads", 0),
                          Get(fastp_results, "read1_before_filtering", 0),
                          Get(config, "adapter_overrep_threshold", AdapterOverrepDefault))
    IN Update(fastp_results,
              [adapter_detection_status |-> e.status,
               adapter_detection_message |-> e.message])

(***************************************************************************)
(* handle_species_coverage (thread.py 687-838)                             *)
(* species_abundance is the list of (name, abundance %, coverage) tuples   *)
(* returned by extract_species_from_report; a name is the pair of words    *)
(* <<genus, species>>.                                                     *)
(***************************************************************************)

CoverageThresholdDefault == 30
ContaminationThresholdDefault == 10
LegacyCoverageWarnFraction == 670
LegacyContaminationWarnFraction == 500

\* thread.py 738-746 (and 1024-1030): <<fail, warn>>
coverage_thresholds(config) ==
    IF "coverage_fail_threshold" \in DOMAIN config
    THEN <<config["coverage_fail_threshold"], config["coverage_warn_threshold"]>>
    ELSE LET fail == Get(config, "coverage_threshold", Fx(CoverageThresholdDefault))
         IN <<fail, FxMul(fail, LegacyCoverageWarnFraction)>>

\* thread.py 749-757: <<fail, warn>>
contamination_thresholds(config) ==
    IF "contamination_fail_threshold" \in DOMAIN config
    THEN <<config["contamination_fail_threshold"], config["contamination_warn_threshold"]>>
    ELSE LET fail == Get(config, "contamination_threshold", Fx(ContaminationThresholdDefault))
         IN <<fail, FxMul(fail, LegacyContaminationWarnFraction)>>

\* sorted(species_abundance, key=lambda x: x[1], reverse=True): stable, descending
RECURSIVE insert_by_abundance(_, _)
insert_by_abundance(sorted, s) ==
    IF sorted = <<>> THEN <<s>>
    ELSE IF Head(sorted)[2] >= s[2]
         THEN <<Head(sorted)>> \o insert_by_abundance(Tail(sorted), s)
         ELSE <<s>> \o sorted

RECURSIVE sorted_by_abundance(_)
sorted_by_abundance(sa) ==
    IF sa = <<>> THEN <<>>
    ELSE insert_by_abundance(sorted_by_abundance(SubSeq(sa, 1, Len(sa) - 1)), sa[Len(sa)])

species_names(sa) == [i \in DOMAIN sa |-> sa[i][1]]

coverage_eval_strict(top_species, fail, warn) ==
    IF top_species[3] > fail
    THEN Eval(PASSED, "Top species coverage meets the threshold.")
    ELSE IF top_species[3] > warn
         THEN Eval(WARNING, "Top species coverage falls between warning and fail thresholds.")
         ELSE Eval(FAILED, "Top species coverage falls below warning threshold.")

\* thread.py 791-815
coverage_eval(top_species, fail, warn) ==
    IF top_species[3] >= fail
    THEN Eval(PASSED, "Top species coverage meets the threshold.")
    ELSE IF top_species[3] >= warn
         THEN Eval(WARNING, "Top species coverage falls between warning and fail thresholds.")
         ELSE Eval(FAILED, "Top species coverage falls below warning threshold.")

\* thread.py 820-837
contamination_eval(top_species, fail, warn) ==
    IF top_species[2] > Fx(100) - fail
    THEN Eval(PASSED, "OK")
    ELSE IF top_species[2] > Fx(100) - warn
         THEN Eval(WARNING, "Top species purity falls between warning and fail thresholds.")
         ELSE Eval(FAILED, "Top species purity falls below warning threshold.")

\* returns [final_results, species]
handle_species_coverage(species_abundance, results, config) ==
    IF species_abundance = <<>>
    THEN [final_results |->
            Update(results,
                   [coverage_status |-> FAILED,
                    contamination_status |-> FAILED,
                    coverage_message |->
                        "No species detected. Cannot estimate genome size or coverage.",
                    gc_content_message |->
                        "No species detected. Cannot determine expected GC content range.",
                    species_status |-> FAILED,
                    species_message |-> "No species detected."]),
          species |-> <<>>]
    ELSE LET species == species_names(sorted_by_abundance(species_abundance))
             top_species == species_abundance[1]
             cov == coverage_eval(top_species, coverage_thresholds(config)[1],
                                  coverage_thresholds(config)[2])
             con == contamination_eval(top_species, contamination_thresholds(config)[1],
                                       contamination_thresholds(config)[2])
         IN [final_results |->
               Update(results,
                      [species_status |-> IF Len(species) = 1 THEN PASSED ELSE WARNING,
                       species_message |->
                           IF Len(species) = 1 THEN ""
                           ELSE "Multiple species detected. Using the top species for genome size and coverage estimation.",
                       species |-> species,
                       species_abundance |-> [i \in DOMAIN species_abundance |-> species_abundance[i][2]],
                       species_coverage |-> [i \in DOMAIN species_abundance |-> species_abundance[i][3]],
                       coverage_status |-> cov.status,
                       coverage_estimate |-> Round2(top_species[3]),
                       coverage_message |-> cov.message,
                       contamination_status |-> con.status,
                       contamination_message |-> con.message]),
             species |-> species]

(***************************************************************************)
(* get_expected_genome_size (thread.py 1165-1201)                          *)
(* The metrics file is a sequence of lines [name, kind, lower, upper];     *)
(* line.startswith(safe_species_name) is a prefix test on the name words.  *)
(***************************************************************************)

\* species.replace(" ", "_").replace(".", "_"): the words, joined by "_"
safe_species_name(species) == species

starts_with(line_name, prefix) ==
    Len(prefix) <= Len(line_name) /\ SubSeq(line_name, 1, Len(prefix)) = prefix

\* one pass of the loop body over a line; acc is <<genome_size, gc_lower, gc_upper>>
metrics_line(acc, line, name) ==
    LET size == IF starts_with(line.name, name) /\ line.kind = "Genome_Size"
                THEN (line.lower + line.upper) \div 2 ELSE acc[1]
        gcl == IF starts_with(line.name, name) /\ line.kind = "GC_Content"
               THEN line.lower ELSE acc[2]
        gcu == IF starts_with(line.name, name) /\ line.kind = "GC_Content"
               THEN line.upper ELSE acc[3]
    IN <<size, gcl, gcu>>

RECURSIVE metrics_scan(_, _, _)
metrics_scan(acc, lines, name) ==
    IF lines = <<>> THEN acc
    ELSE metrics_scan(metrics_line(acc, Head(lines), name), Tail(lines), name)

get_expected_genome_size(species, lines) ==
    metrics_scan(<<0, 0, 0>>, lines, safe_species_name(species))

(***************************************************************************)
(* handle_genome_size (thread.py 982-1086)                                 *)
(***************************************************************************)

GcFailPercentageDefault == 5

\* thread.py 1037-1040; a coverage in thousandths
estimated_coverage(read_total_bases, expected_genome_size) ==
    IF expected_genome_size > 0 /\ read_total_bases > 0
    THEN (Fx(read_total_bases)) \div expected_genome_size
    ELSE 0

\* thread.py 1044-1061
coverage_alt_eval(estimate, fail, warn) ==
    IF estimate >= fail
    THEN Eval(PASSED, "Estimated coverage meets the threshold.")
    ELSE IF estimate >= warn
         THEN Eval(WARNING, "Estimated coverage falls between warning and pass thresholds.")
         ELSE Eval(FAILED, "Estimated coverage below the warning threshold.")

\* thread.py 1064-1066
gc_fail_percentage(config) ==
    LET p == Get(config, "gc_fail_percentage", Fx(GcFailPercentageDefault))
    IN IF p > Fx(1) THEN Div100(p) ELSE p

gc_content_fields_fails_outside(gc_content, gc_lower, gc_upper, tolerance) ==
    IF gc_lower > 0 /\ gc_upper > 0
    THEN IF Fx(gc_lower) <= gc_content /\ gc_content <= Fx(gc_upper)
         THEN [gc_content_status |-> PASSED,
               gc_content_message |-> "GC content within expected range"]
         ELSE IF Fx(gc_lower) - FxMul(Fx(gc_lower), tolerance) <= gc_content
                 /\ gc_content <= Fx(gc_upper) + FxMul(Fx(gc_upper), tolerance)
              THEN [gc_content_status |-> WARNING,
                    gc_content_message |-> "GC content near expected range"]
              ELSE [gc_content_status |-> WARNING,
                    gc_content_message |-> "GC content outside expected range"]
    ELSE <<>>

\* thread.py 1067-1085: the fields this block writes (status only inside the bands)
gc_content_fields(gc_content, gc_lower, gc_upper, tolerance) ==
    IF gc_lower > 0 /\ gc_upper > 0
    THEN IF Fx(gc_lower) <= gc_content /\ gc_content <= Fx(gc_upper)
         THEN [gc_content_status |-> PASSED,
               gc_content_message |-> "GC content within expected range"]
         ELSE IF Fx(gc_lower) - FxMul(Fx(gc_lower), tolerance) <= gc_content
                 /\ gc_content <= Fx(gc_upper) + FxMul(Fx(gc_upper), tolerance)
              THEN [gc_content_status |-> WARNING,
                    gc_content_message |-> "GC content near expected range"]
              ELSE [gc_content_message |-> "GC content outside expected range"]
    ELSE <<>>

handle_genome_size(species_list, fastp_stats, results, config, lines) ==
    LET expected == get_expected_genome_size(species_list[1], lines)
        estimate == estimated_coverage(Get(fastp_stats, "read_total_bases", 0), expected[1])
        warning == IF Len(species_list) > 1
                   THEN "Warning: Multiple species detected. Using the top species." ELSE ""
        alt == coverage_alt_eval(estimate, coverage_thresholds(config)[1],
                                 coverage_thresholds(config)[2])
    IN Update(Update(results,
                     [coverage_alt_estimate |-> Round2(estimate),
                      genome_size_expected |-> expected[1],
                      coverage_alt_status |-> alt.status,
                      coverage_alt_message |-> <<alt.message, warning>>,
                      gc_content_lower |-> expected[2],
                      gc_content_upper |-> expected[3]]),
              gc_content_fields(Get(fastp_stats, "gc_content", 0), expected[2], expected[3],
                                gc_fail_percentage(config)))

(***************************************************************************)
(* handle_mlst_results (thread.py 841-979)                                 *)
(* config["mlst_species"] is kept as the list of its (key, value) items;   *)
(* a key is the list of lower-case words that "_" joins.  A text such as   *)
(* the ST is the list of its characters.                                   *)
(***************************************************************************)

\* str.lower() on the words that occur
lower(word) ==
    CASE word = "Escherichia" -> "escherichia"
      [] word = "Klebsiella" -> "klebsiella"
      [] word = "Bacillus" -> "bacillus"
      [] OTHER -> word

\* species.replace(" ", "_").lower() (thread.py 893)
species_simple(species) == [i \in DOMAIN species |-> lower(species[i])]

\* the loop over config["mlst_species"].items() (thread.py 886-889): index of
\* the first item whose value is the species, 0 if there is none
first_item_with_value(items, species) ==
    IF \E i \in DOMAIN items : items[i].value = species
    THEN CHOOSE i \in DOMAIN items :
             /\ items[i].value = species
             /\ \A j \in 1..(i - 1) : items[j].value # species
    ELSE 0

\* thread.py 883-895: <<found, species_key>>
species_key(config, species) ==
    LET items == config["mlst_species"]
        i == first_item_with_value(items, species)
    IN IF i # 0 THEN <<TRUE, items[i].key>>
       ELSE IF \E j \in DOMAIN items : items[j].key = species_simple(species)
            THEN <<TRUE, species_simple(species)>>
            ELSE <<FALSE, <<>>>>

Whitespace == {" "}

\* str.strip()
RECURSIVE lstrip(_)
lstrip(text) ==
    IF text # <<>> /\ Head(text) \in Whitespace THEN lstrip(Tail(text)) ELSE text

RECURSIVE rstrip(_)
rstrip(text) ==
    IF text # <<>> /\ text[Len(text)] \in Whitespace
    THEN rstrip(SubSeq(text, 1, Len(text) - 1)) ELSE text

strip(text) == rstrip(lstrip(text))

DigitChars == <<"0", "1", "2", "3", "4", "5", "6", "7", "8", "9">>

is_digit(c) == \E i \in DOMAIN DigitChars : DigitChars[i] = c

digit_value(c) == (CHOOSE i \in DOMAIN DigitChars : DigitChars[i] = c) - 1

RECURSIVE digits_value(_)
digits_value(text) ==
    IF text = <<>> THEN 0
    ELSE digits_value(SubSeq(text, 1, Len(text) - 1)) * 10 + digit_value(text[Len(text)])

\* int(text): [ok, value]; ok is FALSE where int raises ValueError
int(text) ==
    LET t == strip(text)
        signed == t # <<>> /\ Head(t) \in {"+", "-"}
        body == IF signed THEN Tail(t) ELSE t
    IN IF body # <<>> /\ \A i \in DOMAIN body : is_digit(body[i])
       THEN [ok |-> TRUE,
             value |-> IF signed /\ Head(t) = "-" THEN 0 - digits_value(body)
                       ELSE digits_value(body)]
       ELSE [ok |-> FALSE, value |-> 0]

st_status_ignores_sign(st_value) ==
    IF strip(st_value) # <<>>
    THEN IF int(strip(st_value)).ok
         THEN [mlst_status |-> PASSED, mlst_message |-> <<"Valid ST found: ">> \o st_value]
         ELSE [mlst_status |-> WARNING,
               mlst_message |-> <<"No valid ST found (ST=">> \o st_value \o <<").">>]
    ELSE [mlst_status |-> WARNING, mlst_message |-> <<"No valid ST found (empty ST field).">>]

\* thread.py 938-965: status and message for an ST field
st_status(st_value) ==
    IF strip(st_value) # <<>>
    THEN IF int(strip(st_value)).ok
         THEN IF int(strip(st_value)).value > 0
              THEN [mlst_status |-> PASSED, mlst_message |-> <<"Valid ST found: ">> \o st_value]
              ELSE IF int(strip(st_value)).value = 0
                   THEN [mlst_status |-> PASSED, mlst_message |-> <<"Novel ST found.">>]
                   ELSE [mlst_status |-> WARNING,
                         mlst_message |-> <<"No valid ST found (ST=">> \o st_value \o <<").">>]
         ELSE [mlst_status |-> WARNING,
               mlst_message |-> <<"No valid ST found (ST=">> \o st_value \o <<").">>]
    ELSE [mlst_status |-> WARNING, mlst_message |-> <<"No valid ST found (empty ST field).">>]

\* thread.py 908-971: the fields written from the result of run_mlst
mlst_fields(mlst_result) ==
    IF Get(mlst_result, "error", None) # None
    THEN [mlst_st |-> None, mlst_status |-> WARNING,
          mlst_message |-> <<"MLST analysis failed: ">> \o mlst_result["error"]]
    ELSE LET stringmlst_results == Get(mlst_result, "stringmlst_results", <<>>)
         IN IF "error" \in DOMAIN stringmlst_results
            THEN [mlst_st |-> None, mlst_status |-> WARNING,
                  mlst_message |-> <<"MLST analysis failed: ">> \o stringmlst_results["error"]]
            ELSE IF "ST" \in DOMAIN stringmlst_results
                 THEN Update([mlst_st |-> IF strip(stringmlst_results["ST"]) # <<>>
                                          THEN stringmlst_results["ST"] ELSE None],
                             st_status(stringmlst_results["ST"]))
                 ELSE [mlst_st |-> None, mlst_status |-> WARNING,
                       mlst_message |-> <<"No valid ST found (ST field missing).">>]

handle_mlst_results_unset(results, config, species, mlst_result) ==
    IF species_key(config, species)[1]
    THEN Update(results, mlst_fields(mlst_result))
    ELSE Update(results,
                [mlst_message |-> <<"No MLST database found for species. Install via config.yml.">>,
                 mlst_status |-> None])

\* mlst_result is what run_mlst returns; it is called only when a key is found
handle_mlst_results(results, config, species, mlst_result) ==
    IF species_key(config, species)[1]
    THEN Update(results, mlst_fields(mlst_result))
    ELSE Update(results,
                [mlst_message |-> <<"No MLST database found for species. Install via config.yml.">>,
                 mlst_status |-> WARNING])

(***************************************************************************)
(* final_status_pass (thread.py 1204-1278)                                 *)
(***************************************************************************)

\* keys of the record that end with "_status" (thread.py 1221)
StatusKeys ==
    {"a_final_status", "read_q30_status", "read_length_status", "coverage_status",
     "gc_content_status", "species_status", "mlst_status", "contamination_status",
     "coverage_alt_status", "duplication_status", "n_content_status",
     "adapter_detection_status"}

statuses(fr) == [k \in (DOMAIN fr) \cap StatusKeys |-> fr[k]]

always_critical_metrics ==
    <<"read_length_status", "read_q30_status", "contamination_status", "gc_content_status">>

tier_critical_metrics == <<"duplication_status", "n_content_status">>

critical_metrics_always_tier(total_reads) ==
    always_critical_metrics \o tier_critical_metrics

critical_metrics(total_reads) ==
    always_critical_metrics \o (IF total_reads > 0 THEN tier_critical_metrics ELSE <<>>)

warning_metrics_with_mlst == <<"species_status", "mlst_status">>

warning_metrics == <<"species_status">>

\* the loop over critical_metrics (thread.py 1243-1246)
critical_check(fr) ==
    LET cm == critical_metrics(Get(fr, "read_total_reads", 0))
    IN IF \E i \in DOMAIN cm : Get(statuses(fr), cm[i], None) = FAILED
       THEN FAILED ELSE PASSED

coverage_check_either(fr, final_status) ==
    IF final_status # FAILED
    THEN IF Get(statuses(fr), "coverage_status", None) = FAILED
            \/ Get(statuses(fr), "coverage_alt_status", None) = FAILED
         THEN FAILED
         ELSE final_status
    ELSE final_status

coverage_check_first_only(fr, final_status) ==
    IF final_status # FAILED
    THEN IF Get(statuses(fr), "coverage_status", None) = FAILED
            /\ Get(statuses(fr), "coverage_alt_status", None) = FAILED
         THEN FAILED
         ELSE IF Get(statuses(fr), "coverage_status", None) = FAILED
              THEN WARNING
              ELSE final_status
    ELSE final_status

\* the coverage block (thread.py 1248-1261)
coverage_check(fr, final_status) ==
    IF final_status # FAILED
    THEN IF Get(statuses(fr), "coverage_status", None) = FAILED
            /\ Get(statuses(fr), "coverage_alt_status", None) = FAILED
         THEN FAILED
         ELSE IF Get(statuses(fr), "coverage_status", None) = FAILED
                 \/ Get(statuses(fr), "coverage_alt_status", None) = FAILED
              THEN WARNING
              ELSE final_status
    ELSE final_status

warning_step_failed_ignored(fr, metric, final_status) ==
    IF Get(statuses(fr), metric, None) = FAILED
    THEN final_status
    ELSE IF Get(statuses(fr), metric, None) = WARNING
         THEN IF final_status = PASSED THEN WARNING ELSE final_status
         ELSE final_status

\* one iteration of the loop over warning_metrics (thread.py 1270-1276)
warning_step(fr, metric, final_status) ==
    IF Get(statuses(fr), metric, None) = FAILED
    THEN IF final_status # FAILED THEN WARNING ELSE final_status
    ELSE IF Get(statuses(fr), metric, None) = WARNING
         THEN IF final_status = PASSED THEN WARNING ELSE final_status
         ELSE final_status

RECURSIVE warning_loop(_, _, _)
warning_loop(fr, metrics, final_status) ==
    IF metrics = <<>> THEN final_status
    ELSE warning_loop(fr, Tail(metrics), warning_step(fr, Head(metrics), final_status))

warning_check_species_fails(fr, final_status) ==
    IF final_status # FAILED
    THEN IF Get(statuses(fr), "species_status", None) = FAILED
         THEN FAILED
         ELSE warning_loop(fr, warning_metrics, final_status)
    ELSE final_status

\* the warning block (thread.py 1263-1276)
warning_check(fr, final_status) ==
    IF final_status # FAILED
    THEN warning_loop(fr, warning_metrics, final_status)
    ELSE final_status

final_status_pass(fr) == warning_check(fr, coverage_check(fr, critical_check(fr)))

(***************************************************************************)
(* SpecVerdict: final_status_pass on every combination of statuses         *)
(***************************************************************************)

\* status fields that final_status_pass may be handed with any value
VerdictInputKeys == StatusKeys \ {"a_final_status", "mlst_status"}

\* largest read_total_reads tried
MaxReads == 1

ReadCounts == 0..MaxReads

\* mlst_status as handle_mlst_results leaves it, or the key missing from the dict
MlstInputs == {PASSED, WARNING, None}

VerdictRecord(st, reads, mlst) ==
    LET base == Update(st, [a_final_status |-> FAILED, read_total_reads |-> reads])
    IN IF mlst = None THEN base ELSE Update(base, [mlst_status |-> mlst])

\* summary_dir is not under study
MergeIdle ==
    /\ files = <<>>
    /\ output_file = <<>>
    /\ merge_log = <<>>

\* locate_read_file_pairs is not under study
DiscoveryIdle ==
    discovery = [pc |-> "idle", directory |-> {}, listing |-> <<>>, read_pairs |-> <<>>,
                 result |-> <<>>]

\* main() is not running
BatchIdle ==
    /\ main_pc = "idle"
    /\ all_ok = TRUE
    /\ sample_pairs = {}
    /\ max_threads = 1
    /\ future = <<>>
    /\ successful_samples = <<>>
    /\ failed_samples = <<>>
    /\ progress = 0
    /\ sample_rows = <<>>
    /\ final_summary = [written |-> FALSE, rows |-> <<>>]
    /\ summary_dir_calls = 0

\* final_status_pass reads nothing but the record it is handed
NoLocals == [config |-> <<>>, fastp_stats |-> <<>>, species_abundance |-> <<>>, species |-> <<>>]

VerdictInit ==
    /\ BatchIdle
    /\ MergeIdle
    /\ DiscoveryIdle
    /\ pc = "fsp_call"
    /\ locals = NoLocals
    /\ \E st \in [VerdictInputKeys -> Statuses], reads \in ReadCounts, mlst \in MlstInputs :
          final_results = VerdictRecord(st, reads, mlst)

\* final_results["a_final_status"] = final_status_pass(final_results) (thread.py 306)
AssignFinalStatus ==
    /\ pc = "fsp_call"
    /\ final_results' = Update(final_results,
                               [a_final_status |-> final_status_pass(final_results)])
    /\ pc' = "fsp_done"
    /\ UNCHANGED <<locals, batch_vars, merge_vars, discovery>>

VerdictNext == AssignFinalStatus

SpecVerdict == VerdictInit /\ [][VerdictNext]_vars

(***************************************************************************)
(* SpecEval: the evaluators, applied in the order run_one_sample applies   *)
(* them (thread.py 251-262), to the statistics, species list and           *)
(* thresholds their callers can hand them                                  *)
(***************************************************************************)

\* configurations: built-in defaults, two tiers with warn below fail, two
\* tiers with warn above fail (Q30 given as whole percentages), legacy keys
\* config["mlst_species"]: database directory name and scientific name
MlstSpecies ==
    <<[key |-> <<"escherichia", "coli">>, value |-> <<"Escherichia", "coli">>],
      [key |-> <<"klebsiella", "pneumoniae">>, value |-> <<"Klebsiella", "pneumoniae", "complex">>]>>

DefaultsConfig == [bactscout_dbs_path |-> "bactscout_dbs", mlst_species |-> MlstSpecies]

TwoTierConfig ==
    [bactscout_dbs_path |-> "bactscout_dbs", mlst_species |-> MlstSpecies,
     q30_fail_threshold |-> 700, q30_warn_threshold |-> 600,
     read_length_fail_threshold |-> 100, read_length_warn_threshold |-> 75,
     coverage_fail_threshold |-> Fx(30), coverage_warn_threshold |-> Fx(20),
     contamination_fail_threshold |-> Fx(10), contamination_warn_threshold |-> Fx(5),
     duplication_warn_threshold |-> 100, duplication_fail_threshold |-> 250,
     n_content_threshold |-> 2, adapter_overrep_threshold |-> 1,
     gc_fail_percentage |-> Fx(10)]

InvertedConfig ==
    [bactscout_dbs_path |-> "bactscout_dbs", mlst_species |-> MlstSpecies,
     q30_fail_threshold |-> Fx(60), q30_warn_threshold |-> Fx(70),
     read_length_fail_threshold |-> 75, read_length_warn_threshold |-> 100,
     coverage_fail_threshold |-> Fx(20), coverage_warn_threshold |-> Fx(30),
     contamination_fail_threshold |-> Fx(5), contamination_warn_threshold |-> Fx(10)]

LegacyConfig ==
    [bactscout_dbs_path |-> "bactscout_dbs", mlst_species |-> MlstSpecies,
     coverage_threshold |-> Fx(40), contamination_threshold |-> Fx(20)]

Configs == {DefaultsConfig, TwoTierConfig, InvertedConfig, LegacyConfig}

\* values tried lie within MaxStep (thousandths, or bases for a length) of a threshold
MaxStep == 1

\* largest number of overrepresented sequences tried above the threshold
MaxOverrep == 1

\* longest species list tried
MaxSpecies == 2

Steps == (0 - MaxStep)..MaxStep

Near(thresholds) == {t + d : t \in thresholds, d \in Steps} \cap Nat

\* filtered_metrics.csv: two species with a genome size and a GC range
MetricsFile ==
    <<[name |-> <<"Escherichia", "coli">>, kind |-> "Genome_Size", lower |-> 900, upper |-> 1100],
      [name |-> <<"Escherichia", "coli">>, kind |-> "GC_Content", lower |-> 50, upper |-> 52],
      [name |-> <<"Klebsiella", "pneumoniae">>, kind |-> "Genome_Size", lower |-> 1900, upper |-> 2100],
      [name |-> <<"Klebsiella", "pneumoniae">>, kind |-> "GC_Content", lower |-> 56, upper |-> 58]>>

\* species sylph can report; the last one has no line in the metrics file
SpeciesNames == {<<"Escherichia", "coli">>, <<"Klebsiella", "pneumoniae">>, <<"Bacillus", "subtilis">>}

\* statistics of a good run with the given number of reads (get_fastp_results)
BaseStats(reads) ==
    [read_total_reads |-> reads,
     read_total_bases |-> 50 * 1000,
     read_q20_bases |-> 0,
     read_q30_bases |-> 0,
     read_q20_rate |-> 950,
     read_q30_rate |-> 900,
     read1_mean_length |-> 150,
     read2_mean_length |-> 150,
     gc_content |-> Fx(51),
     duplication_rate |-> 50,
     n_content_rate |-> 0]

Q30Inputs(config) == Near({q30_fail_threshold(config), q30_warn_threshold(config)})

ReadLengthInputs(config) ==
    Near({read_length_fail_threshold(config), read_length_warn_threshold(config)})

DuplicationInputs(config) ==
    Near({Get(config, "duplication_warn_threshold", DuplicationWarnDefault),
          Get(config, "duplication_fail_threshold", DuplicationFailDefault)})

NContentInputs(config) ==
    Near({Get(config, "n_content_threshold", NContentThresholdDefault) * 100})

OverrepInputs(config) ==
    0..(Get(config, "adapter_overrep_threshold", AdapterOverrepDefault) + MaxOverrep)

CoverageInputs(config) == Near({coverage_thresholds(config)[1], coverage_thresholds(config)[2]})

\* top-species abundances of tests/test_species_handling.py
PinnedAbundances == {Fx(92), Fx(85)}

AbundanceInputs(config) ==
    {a \in Near({Fx(100) - contamination_thresholds(config)[1],
                 Fx(100) - contamination_thresholds(config)[2]}) : a <= Fx(100)}
    \cup PinnedAbundances

\* GC values around the range of Escherichia coli and the edges of its 5% band
GcInputs == Near({Fx(45), Fx(47) + 500, Fx(50), Fx(52), Fx(54) + 600, Fx(58)})

\* the statistics tried: one metric at a time moved around its thresholds
StatsInputs(config, reads) ==
    LET base == BaseStats(reads)
    IN {Update(base, [read_q30_rate |-> q]) : q \in Q30Inputs(config)}
       \cup {Update(base, [read1_mean_length |-> l1, read2_mean_length |-> l2]) :
                l1 \in ReadLengthInputs(config), l2 \in ReadLengthInputs(config)}
       \cup {Update(base, [duplication_rate |-> d]) : d \in DuplicationInputs(config)}
       \cup {Update(base, [n_content_rate |-> n]) : n \in NContentInputs(config)}
       \cup {Update(base, [read1_before_filtering |-> o]) : o \in OverrepInputs(config)}
       \cup {Update(base, [read_total_bases |-> b]) : b \in CoverageInputs(config)}
       \cup {Update(base, [gc_content |-> g]) : g \in GcInputs}

\* a report of n species, sorted by abundance as extract_species_from_report leaves it
SpeciesReport(n, name, abundance, coverage) ==
    [i \in 1..n |->
        IF i = 1 THEN <<name, abundance, coverage>>
        ELSE <<<<"Bacillus", "subtilis">>, (Fx(100) - abundance) \div (n - 1), Fx(1)>>]

BaseReport == SpeciesReport(1, <<"Escherichia", "coli">>, Fx(100), Fx(50))

SpeciesInputs(config) ==
    {SpeciesReport(n, name, Fx(100), Fx(50)) : n \in 0..MaxSpecies, name \in SpeciesNames}
    \cup {SpeciesReport(n, <<"Escherichia", "coli">>, a, Fx(50)) :
             n \in 1..MaxSpecies, a \in AbundanceInputs(config)}
    \cup {SpeciesReport(n, <<"Escherichia", "coli">>, Fx(100), c) :
             n \in 1..MaxSpecies, c \in CoverageInputs(config)}

EvalLocals(config, stats, report) ==
    [config |-> config, fastp_stats |-> stats, species_abundance |-> report, species |-> <<>>]

EvalInit ==
    /\ BatchIdle
    /\ MergeIdle
    /\ DiscoveryIdle
    /\ pc = "handle_fastp_results"
    /\ final_results = blank_sample_results("sample1")
    /\ \E config \in Configs, reads \in ReadCounts :
          \/ \E stats \in StatsInputs(config, reads) :
                locals = EvalLocals(config, stats, BaseReport)
          \/ \E report \in SpeciesInputs(config) :
                locals = EvalLocals(config, BaseStats(reads), report)

\* fastp_stats = handle_fastp_results(fastp_stats, config) (thread.py 252)
HandleFastpResults ==
    /\ pc = "handle_fastp_results"
    /\ locals' = [locals EXCEPT !.fastp_stats = handle_fastp_results(@, locals.config)]
    /\ pc' = "handle_duplication_results"
    /\ UNCHANGED <<final_results, batch_vars, merge_vars, discovery>>

\* thread.py 253
HandleDuplicationResults ==
    /\ pc = "handle_duplication_results"
    /\ locals' = [locals EXCEPT !.fastp_stats = handle_duplication_results(@, locals.config)]
    /\ pc' = "handle_n_content_results"
    /\ UNCHANGED <<final_results, batch_vars, merge_vars, discovery>>

\* thread.py 254
HandleNContentResults ==
    /\ pc = "handle_n_content_results"
    /\ locals' = [locals EXCEPT !.fastp_stats = handle_n_content_results(@, locals.config)]
    /\ pc' = "handle_adapter_detection"
    /\ UNCHANGED <<final_results, batch_vars, merge_vars, discovery>>

\* thread.py 255
HandleAdapterDetection ==
    /\ pc = "handle_adapter_detection"
    /\ locals' = [locals EXCEPT !.fastp_stats = handle_adapter_detection(@, locals.config)]
    /\ pc' = "update_final_results"
    /\ UNCHANGED <<final_results, batch_vars, merge_vars, discovery>>

\* final_results.update(fastp_stats) (thread.py 256)
UpdateFinalResults ==
    /\ pc = "update_final_results"
    /\ final_results' = Update(final_results, locals.fastp_stats)
    /\ pc' = "handle_species_coverage"
    /\ UNCHANGED <<locals, batch_vars, merge_vars, discovery>>

\* thread.py 258-260
HandleSpeciesCoverage ==
    /\ pc = "handle_species_coverage"
    /\ LET r == handle_species_coverage(locals.species_abundance, final_results, locals.config)
       IN /\ final_results' = r.final_results
          /\ locals' = [locals EXCEPT !.species = r.species]
          /\ pc' = IF r.species # <<>> THEN "handle_genome_size" ELSE "evaluated"
    /\ UNCHANGED <<batch_vars, merge_vars, discovery>>

\* thread.py 261-262
HandleGenomeSize ==
    /\ pc = "handle_genome_size"
    /\ final_results' = handle_genome_size(locals.species, locals.fastp_stats, final_results,
                                           locals.config, MetricsFile)
    /\ pc' = "evaluated"
    /\ UNCHANGED <<locals, batch_vars, merge_vars, discovery>>

(***************************************************************************)
(* The contamination gate and the typing step of run_one_sample            *)
(* (thread.py 263-305)                                                     *)
(***************************************************************************)

GateThresholdDefault == 10

\* sum([s[1] for s in species_abundance[1:]]) (thread.py 268)
RECURSIVE sum_abundance(_)
sum_abundance(sa) == IF sa = <<>> THEN 0 ELSE Head(sa)[2] + sum_abundance(Tail(sa))

non_top_abundance(species_abundance) == sum_abundance(Tail(species_abundance))

\* thread.py 269-271
gate_threshold(config) ==
    Get(config, "contamination_fail_threshold",
        Get(config, "contamination_threshold", Fx(GateThresholdDefault)))

gate_contaminated_by_purity(species, species_abundance, config) ==
    Len(species) > 1 /\ non_top_abundance(species_abundance) > Fx(100) - gate_threshold(config)

\* thread.py 265-276: the sample is taken as contaminated
gate_contaminated(species, species_abundance, config) ==
    Len(species) > 1 /\ non_top_abundance(species_abundance) > gate_threshold(config)

\* ST texts stringMLST reports, as in tests/test_mlst_handling.py, and variants
StTexts ==
    {<<"5">>, <<"0">>, <<"-", "1">>, <<>>, <<"N", "/", "A">>,
     <<" ", "5", " ">>, <<"-">>, <<"-", "0">>, <<"+", "5">>, <<" ">>, <<"1", "0">>}

\* str(e) of the CalledProcessError of subprocess.run(mlst_cmd, check=True)
\* (run_stringmlst.py 55-102): the command list is printed with its commas.
\* A text is a list of pieces; a piece is "," or holds no comma.
CommandFailedText ==
    <<"StringMLST command failed: Command '['stringmlst.py'", ",", " '--predict'", ",", " '-P'",
      ",", " 'db/escherichia_coli/escherichia_coli'", ",", " '-1'", ",", " 'sample1_R1.fastq.gz'",
      ",", " '-2'", ",", " 'sample1_R2.fastq.gz'", ",", " '--output'", ",",
      " 'out/sample1/mlst.tsv']' returned non-zero exit status 1.">>

\* what run_mlst can return (run_stringmlst.py 15-110) or a test's stand-in returns
MlstResults ==
    {[error |-> <<"boom">>],
     [stringmlst_results |-> <<>>],
     [error |-> None,
      stringmlst_results |-> [error |-> <<"StringMLST did not create output file.">>]],
     [error |-> None, stringmlst_results |-> [error |-> CommandFailedText]]}
    \cup {[error |-> None, stringmlst_results |-> [Sample |-> "sample1", ST |-> st]] :
             st \in StTexts}

\* thread.py 263-276
ContaminationGate ==
    /\ pc = "evaluated"
    /\ LET contaminated == gate_contaminated(locals.species, locals.species_abundance,
                                             locals.config)
       IN /\ locals' = Update(locals, [not_contaminated |-> ~contaminated,
                                       has_multiple_species |-> Len(locals.species) > 1])
          /\ final_results' =
                IF contaminated
                THEN Update(final_results,
                            [species_status |-> FAILED,
                             species_message |->
                                 "Multiple species detected with significant abundance. Skipping MLST."])
                ELSE final_results
    /\ pc' = "species_branch"
    /\ UNCHANGED <<batch_vars, merge_vars, discovery>>

\* thread.py 279-282
NoSpeciesDetected ==
    /\ pc = "species_branch"
    /\ locals.species = <<>>
    /\ final_results' =
          Update(final_results,
                 [species_status |-> Get(final_results, "species_status", FAILED),
                  species_message |->
                      IF Get(final_results, "species_message", "") = ""
                      THEN "No species detected." ELSE final_results["species_message"]])
    /\ pc' = "fsp_call"
    /\ UNCHANGED <<locals, batch_vars, merge_vars, discovery>>

\* thread.py 283-303: the typer runs when the species has a database
RunMlst ==
    /\ pc = "species_branch"
    /\ locals.species # <<>>
    /\ locals.not_contaminated
    /\ \E mlst_result \in MlstResults :
          LET top_species == locals.species[1]
              called == species_key(locals.config, top_species)[1]
              marked == Update(final_results,
                               IF ~locals.has_multiple_species
                               THEN [species_status |-> PASSED,
                                     species_message |-> "Single species detected."]
                               ELSE [species_status |-> WARNING,
                                     species_message |->
                                         "Multiple species detected. Using the top species for MLST."])
          IN /\ final_results' = handle_mlst_results(marked, locals.config, top_species,
                                                     mlst_result)
             /\ locals' = IF called THEN Update(locals, [mlst_result |-> mlst_result])
                          ELSE locals
    /\ pc' = "fsp_call"
    /\ UNCHANGED <<batch_vars, merge_vars, discovery>>

\* thread.py 304-305
SkipMlst ==
    /\ pc = "species_branch"
    /\ locals.species # <<>>
    /\ ~locals.not_contaminated
    /\ final_results' = Update(final_results, [species_status |-> FAILED])
    /\ pc' = "fsp_call"
    /\ UNCHANGED <<locals, batch_vars, merge_vars, discovery>>


EvalNext ==
    \/ HandleFastpResults
    \/ HandleDuplicationResults
    \/ HandleNContentResults
    \/ HandleAdapterDetection
    \/ UpdateFinalResults
    \/ HandleSpeciesCoverage
    \/ HandleGenomeSize
    \/ ContaminationGate
    \/ NoSpeciesDetected
    \/ RunMlst
    \/ SkipMlst
    \/ AssignFinalStatus

SpecEval == EvalInit /\ [][EvalNext]_vars

(***************************************************************************)
(* SpecBatch: main() (main.py 57-178).  The pairs are numbered in the      *)
(* order of the sample_pairs dict.  A task is one call of run_one_sample;  *)
(* it ends by returning status success after write_summary_file wrote the  *)
(* sample's row (thread.py 317-325), by returning status failed without a  *)
(* row because a read file is gone (thread.py 229-237), or by raising.     *)
(* The keyword batch_worker_count passed at main.py 145 is not a parameter *)
(* of run_one_sample (thread.py 132-142), so with these two files the call *)
(* itself raises TypeError; the other outcomes are those of the body, as   *)
(* the same call without the keyword reaches it (bactscout.py 92-110).     *)
(***************************************************************************)

\* most pairs in the input directory
MaxSamples == 3

\* largest max_threads tried
MaxThreads == 2

\* exception classes a task can end with: tool and file errors, the
\* TypeError of a call with a wrong keyword, the StopIteration of next(f)
\* on an empty sylph report (run_sylph.py 68-121)
ExceptionClasses == {"RuntimeError", "OSError", "ValueError", "TypeError", "StopIteration"}

\* except (RuntimeError, OSError, ValueError) (main.py 160)
IsCaught(exc) == exc \in {"RuntimeError", "OSError", "ValueError"}

Pending(s) == future[s].state = "pending"
Running(s) == future[s].state = "running"
Done(s) == future[s].state = "done"
Raised(s) == Done(s) /\ future[s].outcome \in ExceptionClasses

\* samples as_completed has already yielded
Yielded == {s \in sample_pairs : future[s].yielded}

SampleIdle ==
    /\ pc = "idle"
    /\ final_results = <<>>
    /\ locals = NoLocals

BatchInit ==
    /\ SampleIdle
    /\ MergeIdle
    /\ DiscoveryIdle
    /\ main_pc = "main"
    /\ all_ok \in BOOLEAN
    /\ \E n \in 0..MaxSamples : sample_pairs = 1..n
    /\ max_threads \in 1..MaxThreads
    /\ future = [s \in sample_pairs |->
                   [state |-> "new", outcome |-> None, yielded |-> FALSE, submits |-> 0]]
    /\ successful_samples = <<>>
    /\ failed_samples = <<>>
    /\ progress = 0
    /\ sample_rows = [s \in sample_pairs |-> 0]
    /\ final_summary = [written |-> FALSE, rows |-> <<>>]
    /\ summary_dir_calls = 0

\* if total_samples == 0: return (main.py 110-112)
NoPairs ==
    /\ main_pc = "main"
    /\ sample_pairs = {}
    /\ main_pc' = "returned"
    /\ UNCHANGED <<future, successful_samples, failed_samples, progress, sample_rows,
                   final_summary, all_ok, sample_pairs, max_threads, sample_vars, merge_vars, discovery, summary_dir_calls>>

\* if all_ok: is false and nothing runs (main.py 114)
PreflightFailed ==
    /\ main_pc = "main"
    /\ sample_pairs # {}
    /\ ~all_ok
    /\ main_pc' = "returned"
    /\ UNCHANGED <<future, successful_samples, failed_samples, progress, sample_rows,
                   final_summary, all_ok, sample_pairs, max_threads, sample_vars, merge_vars, discovery, summary_dir_calls>>

\* main.py 114-132
RunPipeline ==
    /\ main_pc = "main"
    /\ sample_pairs # {}
    /\ all_ok
    /\ main_pc' = "submit"
    /\ UNCHANGED <<future, successful_samples, failed_samples, progress, sample_rows,
                   final_summary, all_ok, sample_pairs, max_threads, sample_vars, merge_vars, discovery, summary_dir_calls>>

\* one executor.submit of the dict comprehension (main.py 134-148)
Submit ==
    /\ main_pc = "submit"
    /\ LET s == CHOOSE x \in sample_pairs :
                   future[x].state = "new" /\ \A y \in sample_pairs : y < x => future[y].state # "new"
       IN /\ future' = [future EXCEPT ![s].state = "pending", ![s].submits = @ + 1]
          /\ main_pc' = IF \A y \in sample_pairs \ {s} : future[y].state # "new"
                        THEN "as_completed" ELSE "submit"
    /\ UNCHANGED <<successful_samples, failed_samples, progress, sample_rows,
                   final_summary, all_ok, sample_pairs, max_threads, sample_vars, merge_vars, discovery, summary_dir_calls>>

StartTask_unbounded(s) ==
    /\ Pending(s)
    /\ \A y \in sample_pairs : y < s => ~Pending(y)
    /\ future' = [future EXCEPT ![s].state = "running"]
    /\ UNCHANGED <<main_pc, successful_samples, failed_samples, progress, sample_rows,
                   final_summary, all_ok, sample_pairs, max_threads, sample_vars, merge_vars,
                   discovery, summary_dir_calls>>

\* a free worker of the pool takes the oldest queued task
StartTask(s) ==
    /\ Pending(s)
    /\ \A y \in sample_pairs : y < s => ~Pending(y)
    /\ Cardinality({y \in sample_pairs : Running(y)}) < max_threads
    /\ future' = [future EXCEPT ![s].state = "running"]
    /\ UNCHANGED <<main_pc, successful_samples, failed_samples, progress, sample_rows,
                   final_summary, all_ok, sample_pairs, max_threads, sample_vars, merge_vars, discovery, summary_dir_calls>>

\* run_one_sample wrote the sample's summary file and returned (thread.py 317-325)
TaskSucceeds(s) ==
    /\ Running(s)
    /\ future' = [future EXCEPT ![s].state = "done", ![s].outcome = "success"]
    /\ sample_rows' = [sample_rows EXCEPT ![s] = 1]
    /\ UNCHANGED <<main_pc, successful_samples, failed_samples, progress,
                   final_summary, all_ok, sample_pairs, max_threads, sample_vars, merge_vars, discovery, summary_dir_calls>>

TaskReturnsFailed_records(s) ==
    /\ Running(s)
    /\ future' = [future EXCEPT ![s].state = "done", ![s].outcome = "failed"]
    /\ failed_samples' = Append(failed_samples, s)
    /\ UNCHANGED <<main_pc, successful_samples, progress, sample_rows,
                   final_summary, all_ok, sample_pairs, max_threads, sample_vars, merge_vars,
                   discovery, summary_dir_calls>>

\* a read file is missing: return {"status": "failed"} (thread.py 229-237)
TaskReturnsFailed(s) ==
    /\ Running(s)
    /\ future' = [future EXCEPT ![s].state = "done", ![s].outcome = "failed"]
    /\ UNCHANGED <<main_pc, successful_samples, failed_samples, progress, sample_rows,
                   final_summary, all_ok, sample_pairs, max_threads, sample_vars, merge_vars, discovery, summary_dir_calls>>

\* the call raises before write_summary_file is reached
TaskRaises(s, exc) ==
    /\ Running(s)
    /\ future' = [future EXCEPT ![s].state = "done", ![s].outcome = exc]
    /\ UNCHANGED <<main_pc, successful_samples, failed_samples, progress, sample_rows,
                   final_summary, all_ok, sample_pairs, max_threads, sample_vars, merge_vars, discovery, summary_dir_calls>>

\* where the for loop goes after a completed iteration
AfterIteration(s) ==
    IF Yielded \cup {s} = sample_pairs THEN "summary_dir" ELSE "as_completed"

\* an iteration whose future.result() returns (main.py 151-159, 166)
CollectResult(s) ==
    /\ main_pc = "as_completed"
    /\ Done(s) /\ ~future[s].yielded
    /\ future[s].outcome \in {"success", "failed"}
    /\ future' = [future EXCEPT ![s].yielded = TRUE]
    /\ IF future[s].outcome = "success"
       THEN /\ successful_samples' = Append(successful_samples, s)
            /\ UNCHANGED failed_samples
       ELSE /\ failed_samples' = Append(failed_samples, s)
            /\ UNCHANGED successful_samples
    /\ progress' = progress + 1
    /\ main_pc' = AfterIteration(s)
    /\ UNCHANGED <<sample_rows, final_summary, all_ok, sample_pairs, max_threads, sample_vars, merge_vars, discovery, summary_dir_calls>>

\* an iteration whose future.result() raises a class of the except clause (main.py 160-166)
CollectCaught(s) ==
    /\ main_pc = "as_completed"
    /\ Done(s) /\ ~future[s].yielded
    /\ future[s].outcome \in ExceptionClasses /\ IsCaught(future[s].outcome)
    /\ future' = [future EXCEPT ![s].yielded = TRUE]
    /\ failed_samples' = Append(failed_samples, s)
    /\ progress' = progress + 1
    /\ main_pc' = AfterIteration(s)
    /\ UNCHANGED <<successful_samples, sample_rows, final_summary, all_ok, sample_pairs,
                   max_threads, sample_vars, merge_vars, discovery, summary_dir_calls>>

\* future.result() raises any other class: the exception leaves the loop
CollectUncaught(s) ==
    /\ main_pc = "as_completed"
    /\ Done(s) /\ ~future[s].yielded
    /\ future[s].outcome \in ExceptionClasses /\ ~IsCaught(future[s].outcome)
    /\ future' = [future EXCEPT ![s].yielded = TRUE]
    /\ main_pc' = "executor_exit"
    /\ UNCHANGED <<successful_samples, failed_samples, progress, sample_rows, final_summary,
                   all_ok, sample_pairs, max_threads, sample_vars, merge_vars, discovery, summary_dir_calls>>

\* ThreadPoolExecutor.__exit__ waits for the queued and running tasks, then
\* the exception propagates out of main()
ExecutorExit ==
    /\ main_pc = "executor_exit"
    /\ \A s \in sample_pairs : Done(s)
    /\ main_pc' = "raised"
    /\ UNCHANGED <<future, successful_samples, failed_samples, progress, sample_rows,
                   final_summary, all_ok, sample_pairs, max_threads, sample_vars, merge_vars, discovery, summary_dir_calls>>

\* sorted(summary_files), one file per sample directory
RECURSIVE rows_of(_, _)
rows_of(rows, samples) ==
    IF samples = {} THEN <<>>
    ELSE LET s == CHOOSE x \in samples : \A y \in samples : x <= y
         IN (IF rows[s] > 0 THEN <<s>> ELSE <<>>) \o rows_of(rows, samples \ {s})

\* summary_dir(output_dir, "final_summary.csv") (summary.py 8-97)
summary_dir(rows, summary) ==
    IF \A s \in DOMAIN rows : rows[s] = 0
    THEN summary
    ELSE [written |-> TRUE, rows |-> rows_of(rows, DOMAIN rows)]

\* main.py 168-178
SummaryDir ==
    /\ main_pc = "summary_dir"
    /\ final_summary' = summary_dir(sample_rows, final_summary)
    /\ summary_dir_calls' = summary_dir_calls + 1
    /\ main_pc' = "returned"
    /\ UNCHANGED <<future, successful_samples, failed_samples, progress, sample_rows,
                   all_ok, sample_pairs, max_threads, sample_vars, merge_vars, discovery>>

BatchNext ==
    \/ NoPairs
    \/ PreflightFailed
    \/ RunPipeline
    \/ Submit
    \/ \E s \in sample_pairs : StartTask(s)
    \/ \E s \in sample_pairs : TaskSucceeds(s)
    \/ \E s \in sample_pairs : TaskReturnsFailed(s)
    \/ \E s \in sample_pairs, exc \in ExceptionClasses : TaskRaises(s, exc)
    \/ \E s \in sample_pairs : CollectResult(s)
    \/ \E s \in sample_pairs : CollectCaught(s)
    \/ \E s \in sample_pairs : CollectUncaught(s)
    \/ ExecutorExit
    \/ SummaryDir

SpecBatch == BatchInit /\ [][BatchNext]_vars

(***************************************************************************)
(* SpecMerge: summary_dir (summary.py 8-97) called repeatedly on one       *)
(* data_dir.  A path is the list of its parts below data_dir, ".." first   *)
(* for a place outside it; a file's content is the list of its rows.       *)
(***************************************************************************)

\* most sample directories under data_dir
MaxMergeSamples == 2

\* most calls of summary_dir on the same directory
MaxMergeRuns == 2

MergeSamples == 1..MaxMergeSamples

\* the names that occur, in the order str comparison puts them
PartOrder ==
    <<"..", "final_summary.csv", "merged_summary.csv", "out", "s1", "s1_summary.csv",
      "s2", "s2_summary.csv", "s3", "s3_summary.csv", "s4", "s4_summary.csv">>

rank(part) == CHOOSE i \in DOMAIN PartOrder : PartOrder[i] = part

sample_dir(s) == PartOrder[3 + 2 * s]

sample_file(s) == PartOrder[4 + 2 * s]

\* fnmatch of a file name against "*_summary.csv"
matches_summary_glob(name) ==
    name \in {"final_summary.csv", "merged_summary.csv"} \cup {sample_file(s) : s \in 1..4}

\* Path.__lt__: comparison of the parts, left to right
RECURSIVE path_less(_, _)
path_less(p, q) ==
    IF p = <<>> THEN q # <<>>
    ELSE IF q = <<>> THEN FALSE
    ELSE IF Head(p) = Head(q) THEN path_less(Tail(p), Tail(q))
    ELSE rank(Head(p)) < rank(Head(q))

\* summary.py 29-40: the files the two loops append, whatever the listing order
found_summary_files(fs) ==
    {p \in DOMAIN fs :
        \/ Len(p) = 2 /\ p[1] # ".." /\ matches_summary_glob(p[2])
        \/ Len(p) = 1 /\ matches_summary_glob(p[1]) /\ p[1] # "final_summary.csv"}

\* the orders in which iterdir and glob can hand the files over
Listings(fs) ==
    LET found == found_summary_files(fs)
        n == Cardinality(found)
    IN {l \in [1..n -> found] : \A i, j \in 1..n : i # j => l[i] # l[j]}

RECURSIVE insert_path(_, _)
insert_path(sorted, p) ==
    IF sorted = <<>> THEN <<p>>
    ELSE IF path_less(p, Head(sorted)) THEN <<p>> \o sorted
         ELSE <<Head(sorted)>> \o insert_path(Tail(sorted), p)

unsorted_paths(summary_files) == summary_files

\* sorted(summary_files) (summary.py 51)
RECURSIVE sorted_paths(_)
sorted_paths(summary_files) ==
    IF summary_files = <<>> THEN <<>>
    ELSE insert_path(sorted_paths(SubSeq(summary_files, 1, Len(summary_files) - 1)),
                     summary_files[Len(summary_files)])

\* summary.py 47-69: <<header, all_rows>>; header is <<>> while it is None
RECURSIVE merge_loop(_, _, _, _)
merge_loop(fs, csv_files, header, all_rows) ==
    IF csv_files = <<>> THEN <<header, all_rows>>
    ELSE LET rows == fs[Head(csv_files)]
         IN IF rows = <<>>
            THEN merge_loop(fs, Tail(csv_files), header, all_rows)
            ELSE merge_loop(fs, Tail(csv_files),
                            IF header = <<>> THEN <<rows[1]>> ELSE header,
                            all_rows \o Tail(rows))

\* summary.py 76-90: the rows written to output_file
merged_content(fs, summary_files) ==
    LET m == merge_loop(fs, sorted_paths(summary_files), <<>>, <<>>)
    IN m[1] \o m[2]

write_file(fs, path, content) ==
    [p \in (DOMAIN fs) \cup {path} |-> IF p = path THEN content ELSE fs[p]]

\* what a sample's summary file can hold: nothing, a header alone, a header
\* and the sample's row, the same under another header
SampleContents(s) ==
    {<<>>, <<"header">>, <<"header", sample_dir(s)>>, <<"header_v2", sample_dir(s)>>}

\* output_file of main() and of the summary command with output_dir equal to,
\* below or outside input_dir, and a caller's own file name in data_dir
OutputFiles ==
    {<<"final_summary.csv">>, <<"out", "final_summary.csv">>, <<"..", "final_summary.csv">>,
     <<"merged_summary.csv">>}

MergeInit ==
    /\ SampleIdle
    /\ BatchIdle
    /\ DiscoveryIdle
    /\ output_file \in OutputFiles
    /\ \E present \in SUBSET MergeSamples :
          \E content \in [present -> UNION {SampleContents(s) : s \in MergeSamples}] :
             /\ \A s \in present : content[s] \in SampleContents(s)
             /\ files = [p \in {<<sample_dir(s), sample_file(s)>> : s \in present} |->
                            content[CHOOSE s \in present : sample_dir(s) = p[1]]]
    /\ merge_log = <<>>

\* summary.py 42-44: nothing to merge, nothing written
SummaryDirFindsNothing ==
    /\ Len(merge_log) < MaxMergeRuns
    /\ found_summary_files(files) = {}
    /\ merge_log' = Append(merge_log, [read |-> <<>>, written |-> FALSE, content |-> <<>>])
    /\ UNCHANGED <<files, output_file, sample_vars, batch_vars, discovery>>

\* one call of summary_dir(data_dir, output_file) that finds summary files
SummaryDirMerges ==
    /\ Len(merge_log) < MaxMergeRuns
    /\ found_summary_files(files) # {}
    /\ \E summary_files \in Listings(files) :
          /\ files' = write_file(files, output_file, merged_content(files, summary_files))
          /\ merge_log' = Append(merge_log,
                                 [read |-> sorted_paths(summary_files), written |-> TRUE,
                                  content |-> merged_content(files, summary_files)])
    /\ UNCHANGED <<output_file, sample_vars, batch_vars, discovery>>

MergeNext == SummaryDirFindsNothing \/ SummaryDirMerges

SpecMerge == MergeInit /\ [][MergeNext]_vars

(***************************************************************************)
(* SpecDiscover: locate_read_file_pairs (main.py 181-206).  A file name is *)
(* its stem, a list of pieces ("_", "R", a digit, or a run of other        *)
(* characters), and its extension.                                         *)
(***************************************************************************)

\* most files in the input directory
MaxFiles == 3

\* filename.endswith((".fastq", ".fq", ".fastq.gz", ".fq.gz")) (main.py 194)
FastqExtensions == {".fastq", ".fq", ".fastq.gz", ".fq.gz"}

File(stem, ext) == [stem |-> stem, ext |-> ext]

\* names of tests/test_file_pairs.py and names around the pattern's edges
FileNames ==
    {File(<<"sample", "_", "1">>, ".fastq.gz"), File(<<"sample", "_", "2">>, ".fastq.gz"),
     File(<<"sample", "_", "R", "1">>, ".fastq.gz"), File(<<"sample", "_", "R", "2">>, ".fastq.gz"),
     File(<<"sample", "1">>, ".fastq"), File(<<"sample", "2">>, ".fastq"),
     File(<<"orphan", "_", "2">>, ".fq"), File(<<"orphan", "_", "3">>, ".fq"),
     File(<<"sample", "_", "1">>, ".txt"), File(<<"sample", "_", "1">>, ".fq"),
     File(<<"_", "R", "1">>, ".fq.gz"), File(<<"1">>, ".fq")}

but_last(seq, n) == SubSeq(seq, 1, Len(seq) - n)

ends_with(seq, tail) ==
    Len(tail) <= Len(seq) /\ SubSeq(seq, Len(seq) - Len(tail) + 1, Len(seq)) = tail

\* pattern.match(filename) for (.+?)(?:_R)?([12])(\.fastq(?:\.gz)?|\.fq(?:\.gz)?)$
\* (main.py 191, 195): the lazy group takes the shortest non-empty base
pattern_match(filename) ==
    LET stem == filename.stem
    IN IF filename.ext \notin FastqExtensions THEN [matched |-> FALSE]
       ELSE IF stem = <<>> \/ stem[Len(stem)] \notin {"1", "2"} THEN [matched |-> FALSE]
       ELSE LET pre == but_last(stem, 1)
            IN IF pre = <<>> THEN [matched |-> FALSE]
               ELSE IF ends_with(pre, <<"_", "R">>) /\ Len(pre) > 2
                    THEN [matched |-> TRUE, base |-> but_last(pre, 2), digit |-> stem[Len(stem)]]
                    ELSE [matched |-> TRUE, base |-> pre, digit |-> stem[Len(stem)]]

\* main.py 197-199
base_name(m) == IF ends_with(m.base, <<"_">>) THEN but_last(m.base, 1) ELSE m.base

\* main.py 200
read_type(m) == IF m.digit = "1" THEN "R1" ELSE "R2"

\* one iteration of the loop over os.listdir(directory) (main.py 193-203)
add_file(read_pairs, filename) ==
    IF filename.ext \in FastqExtensions /\ pattern_match(filename).matched
    THEN LET m == pattern_match(filename)
             members == Get(read_pairs, base_name(m), <<>>)
         IN Update(read_pairs,
                   [b \in {base_name(m)} |->
                       Update(members, [t \in {read_type(m)} |-> filename])])
    ELSE read_pairs

complete_pairs_unfiltered(read_pairs) == read_pairs

\* main.py 205: {k: v for k, v in read_pairs.items() if "R1" in v and "R2" in v}
complete_pairs(read_pairs) ==
    [k \in {b \in DOMAIN read_pairs : {"R1", "R2"} \subseteq DOMAIN read_pairs[b]} |->
        read_pairs[k]]

DiscoverInit ==
    /\ SampleIdle
    /\ BatchIdle
    /\ MergeIdle
    /\ \E directory \in SUBSET FileNames :
          /\ Cardinality(directory) <= MaxFiles
          /\ discovery = [pc |-> "listdir", directory |-> directory, listing |-> <<>>,
                          read_pairs |-> <<>>, result |-> <<>>]

\* os.listdir(directory) returns the names in some order (main.py 193)
ListDirectory ==
    /\ discovery.pc = "listdir"
    /\ \E listing \in [1..Cardinality(discovery.directory) -> discovery.directory] :
          /\ \A i, j \in DOMAIN listing : i # j => listing[i] # listing[j]
          /\ discovery' = [discovery EXCEPT !.pc = "loop", !.listing = listing]
    /\ UNCHANGED <<sample_vars, batch_vars, merge_vars>>

\* one iteration of the loop (main.py 193-203)
ProcessFile ==
    /\ discovery.pc = "loop"
    /\ discovery.listing # <<>>
    /\ discovery' = [discovery EXCEPT
                        !.read_pairs = add_file(@, Head(discovery.listing)),
                        !.listing = Tail(@)]
    /\ UNCHANGED <<sample_vars, batch_vars, merge_vars>>

\* main.py 204-206
ReturnCompletePairs ==
    /\ discovery.pc = "loop"
    /\ discovery.listing = <<>>
    /\ discovery' = [discovery EXCEPT !.pc = "returned",
                                      !.result = complete_pairs(discovery.read_pairs)]
    /\ UNCHANGED <<sample_vars, batch_vars, merge_vars>>

DiscoverNext == ListDirectory \/ ProcessFile \/ ReturnCompletePairs

SpecDiscover == DiscoverInit /\ [][DiscoverNext]_vars

(***************************************************************************)
(* SpecSample: run_one_sample from its first tool call to its return       *)
(* (thread.py 238-325).  The tools' results are inputs; the evaluators,    *)
(* the gate, the typing step and the verdict are the actions of SpecEval.  *)
(***************************************************************************)

\* sylph_report.txt is opened for writing before sylph starts (run_sylph.py
\* 53-56), so a failed run leaves it empty; "missing" is a path that does not
\* exist, the case of the except clause of extract_species_from_report
SylphRows ==
    {SpeciesReport(n, name, Fx(100), Fx(50)) : n \in 0..MaxSpecies, name \in SpeciesNames}
    \cup {SpeciesReport(n, <<"Escherichia", "coli">>, a, Fx(50)) :
             n \in 2..MaxSpecies, a \in PinnedAbundances}

\* what run_sylph returns (run_sylph.py 53-65)
SylphResults ==
    {[sylph_report |-> [state |-> "rows", rows |-> rows], errors |-> None] : rows \in SylphRows}
    \cup {[sylph_report |-> [state |-> "empty"], errors |-> "sylph errors"],
          [sylph_report |-> [state |-> "missing"], errors |-> "sylph errors"]}

\* run_sylph.py 68-124: next(f) on an empty report raises StopIteration,
\* which the except FileNotFoundError clause does not catch
extract_species_from_report(sylph_report) ==
    IF sylph_report.state = "missing"
    THEN [raised |-> FALSE, species_abundance |-> <<>>, genome_file_path |-> ""]
    ELSE IF sylph_report.state = "empty"
         THEN [raised |-> TRUE, exception |-> "StopIteration"]
         ELSE [raised |-> FALSE,
               species_abundance |-> sorted_by_abundance(sylph_report.rows),
               genome_file_path |-> IF sylph_report.rows = <<>> THEN "" ELSE "genome.fna"]

\* what run_fastp returns (run_fastp.py 66-103); json holds the report's numbers.
\* As in EvalInit one tool's output is moved at a time: the statistics move
\* around the thresholds for the base species report only.
FastpResults(config, species_abundance) ==
    {[status |-> "success", json_report |-> stats] :
        stats \in IF species_abundance = BaseReport
                  THEN UNION {StatsInputs(config, reads) : reads \in ReadCounts}
                  ELSE {BaseStats(reads) : reads \in ReadCounts}}
    \cup {[status |-> "failed", error |-> "Command returned non-zero exit status 1."]}

\* thread.py 1113-1123: the zero statistics of a failed run
fastp_failed ==
    [read_total_reads |-> 0,
     read_total_bases |-> 0,
     read_q20_bases |-> 0,
     read_q30_bases |-> 0,
     read_q20_rate |-> 0,
     read_q30_rate |-> 0,
     read1_mean_length |-> 0,
     read2_mean_length |-> 0,
     gc_content |-> 0]

\* thread.py 1089-1162
get_fastp_results(fastp_results) ==
    IF Get(fastp_results, "status", None) # "success" THEN fastp_failed
    ELSE fastp_results.json_report

\* ResourceMonitor.get_stats() (thread.py 309-315)
ResourceStats ==
    [resource_threads_peak |-> 2,
     resource_memory_peak_mb |-> Fx(512),
     resource_memory_avg_mb |-> Fx(256),
     resource_duration_sec |-> Fx(30)]

SampleLocals(config, report_resources) ==
    [config |-> config, fastp_stats |-> <<>>, species_abundance |-> <<>>, species |-> <<>>,
     report_resources |-> report_resources]

SampleInit ==
    /\ BatchIdle
    /\ MergeIdle
    /\ DiscoveryIdle
    /\ pc = "run_sylph"
    /\ final_results = blank_sample_results("sample1")
    /\ \E config \in Configs, report_resources \in BOOLEAN :
          locals = SampleLocals(config, report_resources)

\* thread.py 240-242
RunSylph ==
    /\ pc = "run_sylph"
    /\ \E sylph_result \in SylphResults :
          locals' = Update(locals, [sylph_result |-> sylph_result])
    /\ pc' = "extract_species_from_report"
    /\ UNCHANGED <<final_results, batch_vars, merge_vars, discovery>>

\* thread.py 243-246
ExtractSpeciesFromReport ==
    /\ pc = "extract_species_from_report"
    /\ LET r == extract_species_from_report(locals.sylph_result.sylph_report)
       IN IF r.raised
          THEN /\ locals' = Update(locals, [exception |-> r.exception])
               /\ pc' = "raised"
               /\ UNCHANGED final_results
          ELSE /\ locals' = Update(locals, [species_abundance |-> r.species_abundance])
               /\ final_results' = Update(final_results,
                                          [genome_file_path |-> r.genome_file_path])
               /\ pc' = "run_fastp"
    /\ UNCHANGED <<batch_vars, merge_vars, discovery>>

\* thread.py 248-250
RunFastp ==
    /\ pc = "run_fastp"
    /\ \E fastp_result \in FastpResults(locals.config, locals.species_abundance) :
          locals' = Update(locals, [fastp_result |-> fastp_result])
    /\ pc' = "get_fastp_results"
    /\ UNCHANGED <<final_results, batch_vars, merge_vars, discovery>>

\* thread.py 248-250 with run_fastp.py 6: run_command takes no `threads`
RunFastpRejectsThreads ==
    /\ pc = "run_fastp"
    /\ locals' = Update(locals, [exception |-> "TypeError"])
    /\ pc' = "raised"
    /\ UNCHANGED <<final_results, batch_vars, merge_vars, discovery>>

\* thread.py 251
GetFastpResults ==
    /\ pc = "get_fastp_results"
    /\ locals' = [locals EXCEPT !.fastp_stats = get_fastp_results(locals.fastp_result)]
    /\ pc' = "handle_fastp_results"
    /\ UNCHANGED <<final_results, batch_vars, merge_vars, discovery>>

EndResourceMonitor_rewrites ==
    /\ pc = "fsp_done"
    /\ final_results' = IF locals.report_resources
                        THEN Update(final_results,
                                    Update(ResourceStats, [a_final_status |-> PASSED]))
                        ELSE final_results
    /\ pc' = "write_summary_file"
    /\ UNCHANGED <<locals, batch_vars, merge_vars, discovery>>

\* thread.py 308-315
EndResourceMonitor ==
    /\ pc = "fsp_done"
    /\ final_results' = IF locals.report_resources
                        THEN Update(final_results, ResourceStats) ELSE final_results
    /\ pc' = "write_summary_file"
    /\ UNCHANGED <<locals, batch_vars, merge_vars, discovery>>

(***************************************************************************)
(* write_summary_file (thread.py 328-408).  A line is a list of pieces: a  *)
(* comma, a run of text without a comma, or str() of a value that is not a *)
(* text.                                                                   *)
(***************************************************************************)

Comma == [kind |-> "comma"]

\* format_summary_headers() (util.py 108-171)
format_summary_headers ==
    <<"sample_id", "a_final_status", "adapter_detection_status", "contamination_status",
      "species_status", "coverage_status", "coverage_alt_status", "duplication_status",
      "filtering_status", "gc_content_status", "insert_size_status", "mlst_status",
      "n_content_status", "quality_trend_status", "read_length_status", "read_q30_status",
      "species", "species_abundance", "species_coverage", "species_message",
      "contamination_message", "coverage_estimate", "coverage_message",
      "coverage_alt_estimate", "coverage_alt_message", "duplication_rate",
      "duplication_message", "gc_content", "gc_content_lower", "gc_content_upper",
      "gc_content_message", "n_content_rate", "n_content_message", "insert_size_peak",
      "insert_size_message", "mlst_st", "mlst_message", "read1_mean_length",
      "read2_mean_length", "read_length_message", "read_q20_bases", "read_q20_rate",
      "read_q30_bases", "read_q30_rate", "read_q30_message", "read_total_bases",
      "read_total_reads", "quality_trend_message", "filtering_pass_rate",
      "filtering_message", "adapter_detection_message", "genome_file", "genome_file_path",
      "genome_size_expected">>

\* the keys outside the preferred list, in the order of the first sort
\* (thread.py 377-381): no sample_id and no status among them, so by name
other_headers ==
    <<"read1_before_filtering", "resource_duration_sec", "resource_memory_avg_mb",
      "resource_memory_peak_mb", "resource_threads_peak">>

\* thread.py 377-388
sorted_headers(results) ==
    SelectSeq(format_summary_headers \o other_headers, LAMBDA h : h \in DOMAIN results)

\* the pieces of a text kept as a list of strings
text_pieces(text) ==
    [i \in DOMAIN text |-> IF text[i] = "," THEN Comma ELSE [kind |-> "text", text |-> text[i]]]

\* str(final_results[h]) if final_results[h] is not None else "" (thread.py 392-395);
\* mlst_message and mlst_st are the values that carry text from outside
value_pieces(h, value) ==
    IF h = "mlst_message" THEN text_pieces(value)
    ELSE IF h = "mlst_st" THEN IF value = None THEN <<>> ELSE text_pieces(value)
    ELSE <<[kind |-> "str", of |-> value]>>

\* ",".join(cells)
RECURSIVE join(_)
join(cells) ==
    IF cells = <<>> THEN <<>>
    ELSE IF Len(cells) = 1 THEN cells[1]
    ELSE cells[1] \o <<Comma>> \o join(Tail(cells))

\* the two lines written (thread.py 390-396)
summary_lines(results) ==
    LET headers == sorted_headers(results)
    IN <<join([i \in DOMAIN headers |-> <<[kind |-> "text", text |-> headers[i]]>>]),
         join([i \in DOMAIN headers |-> value_pieces(headers[i], results[headers[i]])])>>

\* thread.py 317-325
WriteSummaryFile ==
    /\ pc = "write_summary_file"
    /\ files' = write_file(files, <<sample_dir(1), sample_file(1)>>,
                           summary_lines(final_results))
    /\ locals' = Update(locals, [returned |-> [status |-> "success", sample_id |-> "sample1",
                                               results |-> final_results]])
    /\ pc' = "returned"
    /\ UNCHANGED <<final_results, output_file, merge_log, batch_vars, discovery>>

SampleNext ==
    \/ RunSylph
    \/ ExtractSpeciesFromReport
    \/ RunFastp
    \/ RunFastpRejectsThreads
    \/ GetFastpResults
    \/ EvalNext
    \/ EndResourceMonitor
    \/ WriteSummaryFile

SpecSample == SampleInit /\ [][SampleNext]_vars

(***************************************************************************)
(* Properties of main(), checked under SpecBatch                           *)
(***************************************************************************)

\* main() has ended, by return or by an exception, after dispatching the pairs
BatchEnded == main_pc \in {"returned", "raised"} /\ all_ok /\ sample_pairs # {}

Occurrences(seq, x) == Cardinality({i \in DOMAIN seq : seq[i] = x})

\* C1: when the batch has ended, every pair was processed and collected; a
\* pair whose processing raised, whatever the exception, is once in the
\* failed list and not in the successful list, and every other pair is once
\* in the list its own result puts it in.
C1_FailureIsolation ==
    BatchEnded =>
        \A s \in sample_pairs :
            /\ Done(s)
            /\ future[s].yielded
            /\ Raised(s) =>
                  Occurrences(failed_samples, s) = 1 /\ Occurrences(successful_samples, s) = 0
            /\ future[s].outcome = "success" =>
                  Occurrences(successful_samples, s) = 1 /\ Occurrences(failed_samples, s) = 0
            /\ future[s].outcome = "failed" =>
                  Occurrences(failed_samples, s) = 1 /\ Occurrences(successful_samples, s) = 0

\* C2: when the batch has ended, final_summary.csv exists and holds exactly
\* one data row for every discovered pair, whether its files were missing,
\* its tools failed or its processing raised.
C2_EveryPairHasOneRow ==
    BatchEnded =>
        /\ final_summary.written
        /\ \A s \in sample_pairs : Occurrences(final_summary.rows, s) = 1

\* C14: the progress counter has been advanced once for every task the loop
\* has taken up, whether it succeeded, returned a failure or raised, and when
\* the batch has ended it equals the number of discovered pairs.
C14_ProgressAccounting ==
    /\ progress = Cardinality(Yielded)
    /\ BatchEnded => progress = Cardinality(sample_pairs)

\* C15: main() calls summary_dir at most once and only when no task is
\* pending or running, and when the batch has ended, with however many tasks
\* failed or raised, it has reported the counts and called summary_dir once.
C15_BatchCompletion ==
    /\ summary_dir_calls <= 1
    /\ summary_dir_calls = 1 => \A s \in sample_pairs : Done(s)
    /\ BatchEnded => summary_dir_calls = 1

RunningTasks == {s \in sample_pairs : Running(s)}

Dispatched == main_pc \in {"as_completed", "executor_exit", "summary_dir", "raised"}
                 \/ (main_pc = "returned" /\ all_ok)

\* C16: no pair is submitted twice, every pair has been submitted once when
\* the submission loop is over, and at no moment are more than max_threads
\* samples being processed.
C16_BoundedDispatch ==
    /\ Cardinality(RunningTasks) <= max_threads
    /\ \A s \in sample_pairs : future[s].submits <= 1
    /\ Dispatched => \A s \in sample_pairs : future[s].submits = 1

\* the pool is full and a submitted task waits
C16_Witness ==
    /\ Cardinality(RunningTasks) = max_threads
    /\ max_threads > 1
    /\ \E s \in sample_pairs : Pending(s)

BatchLists == <<successful_samples, failed_samples, progress>>

\* C17: a step changes the success list, the failure list or the progress
\* counter only if it is a step of the collection loop taking up a completed
\* task, and no sample is ever entered twice.
C17_SingleWriter ==
    /\ [][BatchLists' # BatchLists =>
            /\ main_pc = "as_completed"
            /\ \E s \in sample_pairs :
                  /\ Done(s) /\ ~future[s].yielded /\ future'[s].yielded
                  /\ future'[s].state = "done"]_vars
    /\ [](\A s \in sample_pairs :
             Occurrences(successful_samples \o failed_samples, s) <= 1)

\* two tasks ran side by side and both were entered, one in each list
C17_Witness ==
    /\ max_threads > 1
    /\ Len(successful_samples) = 1
    /\ Len(failed_samples) = 1
    /\ progress = 2

(***************************************************************************)
(* Properties of final_status_pass, checked under SpecVerdict              *)
(***************************************************************************)

Verdict == final_results["a_final_status"]

VerdictDone == pc = "fsp_done"

\* the critical set as the specification words it
AnyAlwaysCriticalFailed(fr) ==
    \/ fr["read_length_status"] = FAILED
    \/ fr["read_q30_status"] = FAILED
    \/ fr["contamination_status"] = FAILED
    \/ fr["gc_content_status"] = FAILED

AnyTierCriticalFailed(fr) ==
    fr["duplication_status"] = FAILED \/ fr["n_content_status"] = FAILED

NoCriticalFailed(fr) ==
    /\ ~AnyAlwaysCriticalFailed(fr)
    /\ fr["read_total_reads"] > 0 => ~AnyTierCriticalFailed(fr)

BothCoverageFailed(fr) ==
    fr["coverage_status"] = FAILED /\ fr["coverage_alt_status"] = FAILED

ExactlyOneCoverageFailed(fr) ==
    (fr["coverage_status"] = FAILED) # (fr["coverage_alt_status"] = FAILED)

NoCoverageFailed(fr) ==
    fr["coverage_status"] # FAILED /\ fr["coverage_alt_status"] # FAILED

WithStatus(fr, k, v) == Update(fr, [x \in {k} |-> v])

WithMlst(fr, m) ==
    IF m = None
    THEN [k \in (DOMAIN fr) \ {"mlst_status"} |-> fr[k]]
    ELSE WithStatus(fr, "mlst_status", m)

SwapCoverage(fr) ==
    [fr EXCEPT !["coverage_status"] = fr["coverage_alt_status"],
               !["coverage_alt_status"] = fr["coverage_status"]]

\* C3: a FAILED read length, Q30, contamination or GC status always gives a
\* FAILED verdict; a FAILED duplication or N-content status gives a FAILED
\* verdict when read_total_reads > 0, and with read_total_reads = 0 the verdict
\* is the same whatever the duplication and N-content statuses are.
C3_CriticalFailureRule ==
    VerdictDone =>
        /\ AnyAlwaysCriticalFailed(final_results) => Verdict = FAILED
        /\ (final_results["read_total_reads"] > 0 /\ AnyTierCriticalFailed(final_results))
              => Verdict = FAILED
        /\ final_results["read_total_reads"] = 0 =>
              \A d \in Statuses, n \in Statuses :
                 final_status_pass(WithStatus(WithStatus(final_results,
                     "duplication_status", d), "n_content_status", n)) = Verdict

\* an empty sample whose duplication and N-content statuses are FAILED, not failed by them
C3_Witness ==
    /\ VerdictDone
    /\ final_results["read_total_reads"] = 0
    /\ final_results["duplication_status"] = FAILED
    /\ final_results["n_content_status"] = FAILED
    /\ Verdict = PASSED

\* C4: with no critical metric FAILED, the verdict is FAILED exactly when both
\* coverage statuses are FAILED, and swapping the two coverage statuses gives
\* the same verdict.
C4_CoverageFailedSide ==
    (VerdictDone /\ NoCriticalFailed(final_results)) =>
        /\ (Verdict = FAILED) <=> BothCoverageFailed(final_results)
        /\ final_status_pass(SwapCoverage(final_results)) = Verdict

C4_Witness ==
    /\ VerdictDone
    /\ NoCriticalFailed(final_results)
    /\ BothCoverageFailed(final_results)
    /\ final_results["species_status"] = PASSED
    /\ Verdict = FAILED

\* C5 as stated: the verdict is WARNING exactly when one of the two coverage
\* statuses is FAILED and no critical metric is FAILED.
C5_WarningIffOneCoverageFailed ==
    VerdictDone =>
        ((Verdict = WARNING) <=>
            (ExactlyOneCoverageFailed(final_results) /\ NoCriticalFailed(final_results)))

\* C5 (amended): the verdict is WARNING exactly when no critical metric is
\* FAILED and either exactly one coverage status is FAILED, or neither is and
\* species_status is WARNING or FAILED.
C5_WarningSide ==
    VerdictDone =>
        ((Verdict = WARNING) <=>
            /\ NoCriticalFailed(final_results)
            /\ \/ ExactlyOneCoverageFailed(final_results)
               \/ /\ NoCoverageFailed(final_results)
                  /\ final_results["species_status"] \in {WARNING, FAILED})

\* only the computed coverage estimate failed, species fine
C5_Witness ==
    /\ VerdictDone
    /\ NoCriticalFailed(final_results)
    /\ final_results["coverage_status"] = PASSED
    /\ final_results["coverage_alt_status"] = FAILED
    /\ final_results["species_status"] = PASSED
    /\ Verdict = WARNING

\* C6: the verdict is the same for every value of mlst_status (PASSED, WARNING
\* or the key absent), all other fields fixed.
C6_MlstInformationalOnly ==
    VerdictDone =>
        \A m \in MlstInputs : final_status_pass(WithMlst(final_results, m)) = Verdict

C6_Witness ==
    /\ VerdictDone
    /\ "mlst_status" \in DOMAIN final_results
    /\ final_results["mlst_status"] = WARNING
    /\ final_results["species_status"] = PASSED
    /\ Verdict = PASSED

\* C7: when the critical and coverage checks leave the verdict PASSED, a
\* species_status of WARNING or FAILED makes it WARNING; a verdict left WARNING
\* by the coverage check stays WARNING; and the verdict is FAILED only through
\* a critical metric or both coverage statuses, never through species_status.
C7_SecondaryWarningRule ==
    (VerdictDone /\ NoCriticalFailed(final_results)) =>
        /\ (NoCoverageFailed(final_results)
             /\ final_results["species_status"] \in {WARNING, FAILED}) => Verdict = WARNING
        /\ ExactlyOneCoverageFailed(final_results) => Verdict = WARNING
        /\ ~BothCoverageFailed(final_results) => Verdict # FAILED

C7_Witness ==
    /\ VerdictDone
    /\ NoCriticalFailed(final_results)
    /\ NoCoverageFailed(final_results)
    /\ final_results["species_status"] = FAILED
    /\ Verdict = WARNING

(***************************************************************************)
(* Properties of the evaluators, checked under SpecEval                    *)
(***************************************************************************)

Evaluated == pc = "evaluated"

\* the handlers that have already returned at the current position
EvalOrder ==
    <<"handle_fastp_results", "handle_duplication_results", "handle_n_content_results",
      "handle_adapter_detection", "update_final_results", "handle_species_coverage",
      "handle_genome_size", "evaluated", "species_branch", "fsp_call", "fsp_done">>

Position(p) == CHOOSE i \in DOMAIN EvalOrder : EvalOrder[i] = p

HasReturned(handler) == Position(pc) > Position(handler)

NoReads == locals.fastp_stats["read_total_reads"] = 0

SpeciesDetected == locals.species_abundance # <<>>

Min(a, b) == IF a <= b THEN a ELSE b

\* C8: with read_total_reads = 0 the Q30, read-length, duplication, N-content
\* and adapter-detection evaluators each return FAILED, whatever the other
\* values and the thresholds are, and that is what the record then carries.
C8_ZeroReadsRule ==
    NoReads =>
        /\ HasReturned("handle_fastp_results") =>
              /\ locals.fastp_stats["read_q30_status"] = FAILED
              /\ locals.fastp_stats["read_length_status"] = FAILED
        /\ HasReturned("handle_duplication_results") =>
              locals.fastp_stats["duplication_status"] = FAILED
        /\ HasReturned("handle_n_content_results") =>
              locals.fastp_stats["n_content_status"] = FAILED
        /\ HasReturned("handle_adapter_detection") =>
              locals.fastp_stats["adapter_detection_status"] = FAILED
        /\ HasReturned("update_final_results") =>
              \A k \in {"read_q30_status", "read_length_status", "duplication_status",
                        "n_content_status", "adapter_detection_status"} :
                 final_results[k] = FAILED

\* no reads, yet every value on the passing side of its threshold
C8_Witness ==
    /\ Evaluated
    /\ NoReads
    /\ final_results["read_q30_rate"] >= q30_fail_threshold(locals.config)
    /\ final_results["read1_mean_length"] >= read_length_fail_threshold(locals.config)
    /\ final_results["duplication_rate"]
          <= Get(locals.config, "duplication_warn_threshold", DuplicationWarnDefault)
    /\ final_results["read_q30_status"] = FAILED
    /\ final_results["adapter_detection_status"] = FAILED

\* the four higher-is-better metrics of an evaluated sample:
\* <<data present, value, fail threshold, warn threshold, status>>
HigherIsBetter ==
    LET config == locals.config
        stats == locals.fastp_stats
    IN {<<~NoReads, stats["read_q30_rate"],
          q30_fail_threshold(config), q30_warn_threshold(config),
          final_results["read_q30_status"]>>,
        <<~NoReads, Min(stats["read1_mean_length"], stats["read2_mean_length"]),
          read_length_fail_threshold(config), read_length_warn_threshold(config),
          final_results["read_length_status"]>>,
        <<SpeciesDetected,
          IF SpeciesDetected THEN locals.species_abundance[1][3] ELSE 0,
          coverage_thresholds(config)[1], coverage_thresholds(config)[2],
          final_results["coverage_status"]>>,
        <<SpeciesDetected,
          estimated_coverage(stats["read_total_bases"], final_results["genome_size_expected"]),
          coverage_thresholds(config)[1], coverage_thresholds(config)[2],
          final_results["coverage_alt_status"]>>}

Contamination == Fx(100) - locals.species_abundance[1][2]

\* C10: with c = 100 - top species abundance, contamination_status is PASSED
\* only when c <= warn, WARNING when warn < c <= fail, FAILED when c > fail.
C10_ContaminationLowerIsBetter ==
    (Evaluated /\ SpeciesDetected) =>
        LET fail == contamination_thresholds(locals.config)[1]
            warn == contamination_thresholds(locals.config)[2]
            status == final_results["contamination_status"]
        IN /\ status = PASSED => Contamination <= warn
           /\ (warn < Contamination /\ Contamination <= fail) => status = WARNING
           /\ Contamination > fail => status = FAILED

(***************************************************************************)
(* Properties of the contamination gate and the typing step (SpecEval)     *)
(***************************************************************************)

PastSpeciesBranch == pc \in {"fsp_call", "fsp_done"}

TyperInvoked == "mlst_result" \in DOMAIN locals

SignificantNonTopAbundance ==
    /\ Len(locals.species_abundance) > 1
    /\ non_top_abundance(locals.species_abundance) > contamination_thresholds(locals.config)[1]

\* C11: when more than one species is detected and the abundances of the
\* non-top species sum to more than the contamination fail threshold, the
\* sample leaves the gate with species_status FAILED, the typer has not been
\* invoked and mlst_status is still the default WARNING.
C11_ContaminationGate ==
    (PastSpeciesBranch /\ SignificantNonTopAbundance) =>
        /\ final_results["species_status"] = FAILED
        /\ ~TyperInvoked
        /\ final_results["mlst_status"] = blank_sample_results("sample1")["mlst_status"]
        /\ final_results["mlst_status"] = WARNING

\* two species, the second just above the fail threshold, top species typeable
C11_Witness ==
    /\ pc = "fsp_done"
    /\ SignificantNonTopAbundance
    /\ Len(locals.species_abundance) = 2
    /\ species_key(locals.config, locals.species[1])[1]
    /\ final_results["species_status"] = FAILED
    /\ ~TyperInvoked

\* handle_mlst_results has returned for a sample that passed the gate
MlstHandled ==
    /\ PastSpeciesBranch
    /\ pc # "species_branch"
    /\ locals.species # <<>>
    /\ locals.not_contaminated

\* text is blanks around an optional sign and digits, and the number is not below zero
ParsesNonNegative(text) ==
    \E i, j \in 1..Len(text) :
        /\ i <= j
        /\ \A k \in 1..Len(text) : (k < i \/ k > j) => text[k] \in Whitespace
        /\ text[i] \notin Whitespace /\ text[j] \notin Whitespace
        /\ LET start == IF text[i] \in {"+", "-"} THEN i + 1 ELSE i
           IN /\ start <= j
              /\ \A k \in start..j : is_digit(text[k])
              /\ text[i] = "-" => \A k \in start..j : text[k] = "0"

\* the typer ran without an error and reported an ST that is an integer >= 0
ValidSequenceType ==
    /\ TyperInvoked
    /\ Get(locals.mlst_result, "error", None) = None
    /\ "stringmlst_results" \in DOMAIN locals.mlst_result
    /\ "error" \notin DOMAIN locals.mlst_result["stringmlst_results"]
    /\ "ST" \in DOMAIN locals.mlst_result["stringmlst_results"]
    /\ ParsesNonNegative(locals.mlst_result["stringmlst_results"]["ST"])

GenomeSizeStep == pc = "handle_genome_size" /\ pc' = "evaluated"

GcValue == Get(locals.fastp_stats, "gc_content", 0)

\* the expected range of the top species, widened on both sides by the tolerance
InGcRange(low, high) == Fx(low) <= GcValue /\ GcValue <= Fx(high)

InGcBand(low, high) ==
    LET tolerance == gc_fail_percentage(locals.config)
    IN /\ Fx(low) - FxMul(Fx(low), tolerance) <= GcValue
       /\ GcValue <= Fx(high) + FxMul(Fx(high), tolerance)

\* C21: when both expected GC bounds are positive, handle_genome_size sets
\* gc_content_status to PASSED for a GC value inside [low, high], to WARNING
\* for a value inside the tolerance band, and otherwise writes only
\* gc_content_message and leaves gc_content_status as it was before the call.
C21_GcContentEvaluator ==
    [][GenomeSizeStep =>
          LET low == final_results'["gc_content_lower"]
              high == final_results'["gc_content_upper"]
          IN (low > 0 /\ high > 0) =>
                IF InGcRange(low, high)
                THEN final_results'["gc_content_status"] = PASSED
                ELSE IF InGcBand(low, high)
                     THEN final_results'["gc_content_status"] = WARNING
                     ELSE /\ final_results'["gc_content_status"] =
                                final_results["gc_content_status"]
                          /\ final_results'["gc_content_message"] #
                                final_results["gc_content_message"]]_vars

\* handle_genome_size has returned for a GC value outside the band of a mapped
\* species: the message says so and the status is still the blank record's
C21_Witness ==
    /\ HasReturned("handle_genome_size")
    /\ locals.species # <<>>
    /\ final_results["gc_content_lower"] > 0
    /\ final_results["gc_content_upper"] > 0
    /\ ~InGcBand(final_results["gc_content_lower"], final_results["gc_content_upper"])
    /\ final_results["gc_content_message"] = "GC content outside expected range"
    /\ final_results["gc_content_status"] = blank_sample_results("sample1")["gc_content_status"]

\* the top species has no line in the metrics file
UnmappedSpecies ==
    /\ locals.species # <<>>
    /\ \A i \in DOMAIN MetricsFile :
          ~starts_with(MetricsFile[i].name, safe_species_name(locals.species[1]))

\* C22: after the genome-size lookup for a top species without an entry in
\* the metrics file, gc_content_status is not FAILED, and when no status
\* other than those of the lookup (GC content, genome-size coverage) is
\* FAILED the verdict is not FAILED.
C22_UnmappedSpeciesWarning ==
    (HasReturned("handle_genome_size") /\ UnmappedSpecies) =>
        /\ final_results["gc_content_status"] \in {PASSED, WARNING}
        /\ (/\ pc = "fsp_done"
            /\ \A k \in (DOMAIN final_results) \cap StatusKeys :
                  k \notin {"gc_content_status", "coverage_alt_status", "a_final_status"}
                     => final_results[k] # FAILED)
           => final_results["a_final_status"] # FAILED

\* C28: the typer is invoked only for a sample with a single species or
\* without significant non-top abundance, and never for a sample whose
\* contamination_status is FAILED.
C28_TypingOnlyUncontaminated ==
    (PastSpeciesBranch /\ TyperInvoked) =>
        /\ Len(locals.species) = 1 \/ ~SignificantNonTopAbundance
        /\ final_results["contamination_status"] # FAILED

(***************************************************************************)
(* Properties of handle_fastp_results under the default thresholds         *)
(* (SpecEval)                                                              *)
(***************************************************************************)

\* the configuration leaves the Q30 and read-length thresholds at their defaults
DefaultFastpThresholds ==
    /\ q30_fail_threshold(locals.config) = Q30FailDefault
    /\ q30_warn_threshold(locals.config) = Q30WarnDefault
    /\ read_length_fail_threshold(locals.config) = ReadLengthFailDefault
    /\ read_length_warn_threshold(locals.config) = ReadLengthWarnDefault

ShorterMeanLength ==
    Min(locals.fastp_stats["read1_mean_length"], locals.fastp_stats["read2_mean_length"])

\* C27: with the default thresholds (Q30 warn 0.70 and fail 0.60, read
\* length warn 100 and fail 75) and reads present, handle_fastp_results gives
\* WARNING for a value below the warn threshold and not below the fail
\* threshold, and FAILED only for a value below the fail threshold.
C27_DefaultThresholdBands ==
    (HasReturned("handle_fastp_results") /\ DefaultFastpThresholds /\ ~NoReads) =>
        /\ (/\ locals.fastp_stats["read_q30_rate"] < Q30WarnDefault
            /\ locals.fastp_stats["read_q30_rate"] >= Q30FailDefault)
              => locals.fastp_stats["read_q30_status"] = WARNING
        /\ locals.fastp_stats["read_q30_status"] = FAILED
              => locals.fastp_stats["read_q30_rate"] < Q30FailDefault
        /\ (ShorterMeanLength < ReadLengthWarnDefault /\ ShorterMeanLength >= ReadLengthFailDefault)
              => locals.fastp_stats["read_length_status"] = WARNING
        /\ locals.fastp_stats["read_length_status"] = FAILED
              => ShorterMeanLength < ReadLengthFailDefault

(***************************************************************************)
(* Properties of run_one_sample, checked under SpecSample                  *)
(***************************************************************************)

SylphFailed == "sylph_result" \in DOMAIN locals /\ locals.sylph_result.errors # None

FastpFailed == "fastp_result" \in DOMAIN locals /\ locals.fastp_result.status = "failed"

SampleRaised == pc = "raised"

SampleReturned == pc = "returned"

SummaryPath == <<sample_dir(1), sample_file(1)>>

\* C23: after the read-QC tool or the species profiler failed, leaving no
\* report or an empty one, run_one_sample does not raise, and when it returns
\* after a failed read-QC run the read metrics hold their zero and FAILED
\* defaults, the verdict is set and the summary file is written.
C23_ToolFailureDegrades ==
    /\ (SylphFailed \/ FastpFailed) => ~SampleRaised
    /\ (FastpFailed /\ SampleReturned) =>
          /\ final_results["read_total_reads"] = 0
          /\ final_results["read_q30_status"] = FAILED
          /\ final_results["read_length_status"] = FAILED
          /\ final_results["a_final_status"] = FAILED
          /\ SummaryPath \in DOMAIN files

\* C24: from the blank record to the written summary, after every step of
\* run_one_sample and for every tool output, each field whose name ends in
\* _status is present and holds PASSED, WARNING or FAILED.
C24_StatusDomain ==
    \A k \in StatusKeys : k \in DOMAIN final_results /\ final_results[k] \in Statuses

\* the sample returned after a failed read-QC run: the read metrics are
\* FAILED for want of data while the species metric was evaluated
C24_Witness ==
    /\ SampleReturned
    /\ FastpFailed
    /\ final_results["read_q30_status"] = FAILED
    /\ final_results["species_status"] = PASSED
    /\ final_results["mlst_status"] = WARNING

\* a_final_status has been assigned in run_one_sample
VerdictAssigned == pc \in {"fsp_done", "write_summary_file", "returned"}

ResourceKeys == DOMAIN ResourceStats

\* C25 as stated: once a_final_status has been assigned, no step changes the
\* verdict or any other field of the record, or adds a field, before the
\* record is written.
C25_VerdictTerminal ==
    [][VerdictAssigned => final_results' = final_results]_vars

\* C25 amended: once a_final_status has been assigned, no step changes the
\* verdict or any field the record holds; the only fields added before the
\* record is written are the four resource_* fields, and only when resource
\* reporting was asked for.
C25_VerdictTerminalAmended ==
    [][VerdictAssigned =>
          /\ \A k \in DOMAIN final_results :
                k \in DOMAIN final_results' /\ final_results'[k] = final_results[k]
          /\ (DOMAIN final_results') \ (DOMAIN final_results) \subseteq ResourceKeys
          /\ (DOMAIN final_results' # DOMAIN final_results) => locals.report_resources]_vars

\* a sample returned with the resource fields added after its verdict
C25_Witness ==
    /\ SampleReturned
    /\ locals.report_resources
    /\ ResourceKeys \subseteq DOMAIN final_results
    /\ final_results["a_final_status"] = WARNING
    /\ SummaryPath \in DOMAIN files

(***************************************************************************)
(* Further properties of final_status_pass, checked under SpecVerdict      *)
(***************************************************************************)

\* the metric statuses whose WARNING the docstring says accumulates
AccumulatingMetrics ==
    {"read_q30_status", "read_length_status", "duplication_status", "n_content_status",
     "coverage_status", "contamination_status"}

\* C26: when no critical metric is FAILED, the two coverage metrics are not
\* both FAILED and at least one of the Q30, read-length, duplication,
\* N-content, coverage or contamination statuses is WARNING, the verdict is
\* WARNING.
C26_WarningAccumulation ==
    VerdictDone =>
        ((/\ NoCriticalFailed(final_results)
          /\ ~BothCoverageFailed(final_results)
          /\ \E k \in AccumulatingMetrics : final_results[k] = WARNING)
            => Verdict = WARNING)

\* csv.reader of summary_dir (summary.py 55-57) on a line: a field ends at each comma
field_count(line) == 1 + Len(SelectSeq(line, LAMBDA piece : piece.kind = "comma"))

\* the two lines of the sample's summary file
WrittenLines == files[SummaryPath]

\* C29: the data row written by write_summary_file has exactly as many
\* comma-separated fields as the header row, whatever text the message
\* fields hold.
C29_RowHeaderAlignment ==
    SampleReturned => field_count(WrittenLines[2]) = field_count(WrittenLines[1])

\* PASSED < WARNING < FAILED
Severity(status) == IF status = PASSED THEN 0 ELSE IF status = WARNING THEN 1 ELSE 2

\* C30: with read_total_reads fixed, replacing any single status of the
\* record by a worse one never makes the verdict of final_status_pass better.
C30_VerdictMonotone ==
    VerdictDone =>
        \A k \in (DOMAIN final_results) \cap StatusKeys :
            \A worse \in Statuses :
                Severity(worse) > Severity(final_results[k]) =>
                    Severity(final_status_pass(WithStatus(final_results, k, worse)))
                        >= Severity(Verdict)

\* a record with every status PASSED and so a PASSED verdict, which a worse
\* coverage, species or Q30 status turns to WARNING or FAILED
C30_Witness ==
    /\ VerdictDone
    /\ final_results["read_total_reads"] > 0
    /\ \A k \in (DOMAIN final_results) \cap StatusKeys : final_results[k] = PASSED
    /\ final_status_pass(WithStatus(final_results, "coverage_status", FAILED)) = WARNING
    /\ final_status_pass(WithStatus(final_results, "species_status", WARNING)) = WARNING
    /\ final_status_pass(WithStatus(final_results, "read_q30_status", FAILED)) = FAILED

(***************************************************************************)
(* Properties of summary_dir, checked under SpecMerge                      *)
(***************************************************************************)

FilesRead(call) == {call.read[i] : i \in DOMAIN call.read}

\* C12: no call of summary_dir reads its own output_file, and a second call
\* on the same data_dir and output_file, made with the first call's output
\* in place, writes the content the first call wrote.
C12_MergeIdempotence ==
    /\ \A i \in DOMAIN merge_log : output_file \notin FilesRead(merge_log[i])
    /\ Len(merge_log) >= 2 => merge_log[2].content = merge_log[1].content

\* C13: whatever the order in which the directory listing hands over a given
\* set of summary files, summary_dir writes the same header and the same
\* data rows in the same order.
C13_MergeDeterminism ==
    \A l1 \in Listings(files), l2 \in Listings(files) :
        merged_content(files, l1) = merged_content(files, l2)

\* a merge of two sample files with different headers, already written
C13_Witness ==
    /\ Len(merge_log) >= 1
    /\ merge_log[1].written
    /\ Len(merge_log[1].read) = 2
    /\ merge_log[1].content = <<"header", "s1", "s2">>
    /\ files[merge_log[1].read[2]][1] = "header_v2"

(***************************************************************************)
(* Properties of locate_read_file_pairs, checked under SpecDiscover        *)
(***************************************************************************)

Discovered == discovery.pc = "returned"

\* the files of the directory that the pattern takes as the given read of the given base
Members(base, type) ==
    {f \in discovery.directory :
        /\ pattern_match(f).matched
        /\ base_name(pattern_match(f)) = base
        /\ read_type(pattern_match(f)) = type}

Mate(type) == IF type = "R1" THEN "R2" ELSE "R1"

\* C18: every base name returned has both an R1 and an R2 file in the
\* directory, which are the two files returned for it, and a file whose mate
\* is missing leaves no entry; the call returns for every directory.
C18_PairCompleteness ==
    Discovered =>
        /\ \A base \in DOMAIN discovery.result :
              /\ DOMAIN discovery.result[base] = {"R1", "R2"}
              /\ \A type \in {"R1", "R2"} : discovery.result[base][type] \in Members(base, type)
        /\ \A f \in discovery.directory :
              pattern_match(f).matched =>
                 LET base == base_name(pattern_match(f))
                 IN Members(base, Mate(read_type(pattern_match(f)))) = {} =>
                       base \notin DOMAIN discovery.result

\* a complete pair is returned next to an orphan R2 file that leaves no entry
C18_Witness ==
    /\ Discovered
    /\ File(<<"orphan", "_", "2">>, ".fq") \in discovery.directory
    /\ DOMAIN discovery.result = {<<"sample">>}
    /\ discovery.result[<<"sample">>]["R2"] = File(<<"sample", "_", "R", "2">>, ".fastq.gz")

HasPairSuffix(f) ==
    /\ f.ext \in FastqExtensions
    /\ \E d \in {"1", "2"} : ends_with(f.stem, <<"_", "R", d>>) \/ ends_with(f.stem, <<"_", d>>)

\* C19: every file returned as a member of a pair has a name that ends with
\* _R1, _R2, _1 or _2 immediately before a FASTQ extension.
C19_RecognizedPairSuffix ==
    Discovered =>
        \A base \in DOMAIN discovery.result :
            \A type \in DOMAIN discovery.result[base] :
                HasPairSuffix(discovery.result[base][type])

====
